---- MODULE Spec2Model ----
(***************************************************************************)
(* A model of the plot engine of spartan-farmer (plot.rs) and of the DHT   *)
(* record store of subspace-networking (custom_record_store.rs).           *)
(*                                                                         *)
(* Word sizes are scaled down: a byte has BYTE values instead of 256, a    *)
(* tag and a piece index are TAG_LEN bytes instead of 8, so the "u64" of   *)
(* the model is an integer modulo WORD = BYTE^TAG_LEN.                     *)
(***************************************************************************)
EXTENDS Integers, Sequences, FiniteSets, TLC

VARIABLES
    plot_file,            \* bytes of plot.bin, owned by the background task
    piece_count,          \* Inner::piece_count (AtomicU64)
    commitments,          \* Commitments: salt -> tags database on disk or NoDb
    commitment_statuses,  \* Inner::commitment_statuses (HashMap under a Mutex)
    read_requests,        \* channel of ReadRequests
    write_requests,       \* channel of WriteRequests
    any_requests,         \* number of () in the wake channel
    did_nothing,          \* local of the background task
    epc,                  \* position of the background task in its loop
    pc,                   \* position of every client task
    op,                   \* the public call a client task is in (or was last in)
    drv,                  \* locals of create_commitment / retain_commitments
    reply,                \* the oneshot channel of a client's pending request
    result,               \* what the last public call of a client returned
    calls,                \* number of public calls started so far
    mine,                 \* history: a client's last write_many and its state
    clobbered,            \* history: indexes overwritten after a client's write
    scn,                  \* history: what happened to a create_commitment run
    recreated,            \* history: index reopened after a client's removal
    dirty,                \* history: a piece write was served after a call began
    f_db,                 \* a tags database, filled by WriteTags requests
    f_target, f_range,    \* the target and the range of a FindByRange request
    f_solutions,          \* the solutions vector of that request
    f_out,                \* what the request sent back
    f_done,               \* the request was served
    inner,                \* LimitedSizeRecordStorageWrapper::inner
    heap,                 \* LimitedSizeRecordStorageWrapper::heap
    local_peer,           \* the peer id given to the wrapper
    max_items,            \* the limit given to the wrapper
    s_hist,               \* history: the keys put so far
    s_last,               \* history: the last operation on the wrapper
    p_db,                 \* ParityDbRecordStorage::db: key -> bytes of a record
    p_hist,               \* history: the sets put under a key since it was absent
    senders,              \* the channels whose sender Inner still holds
    plot_db,              \* Inner::plot_db: held, taken by drop, or dropped
    synced,               \* history: plot_file.sync_all() was called
    in_service,           \* the requests whose handler has begun and not ended
    acked,                \* history: the tags whose WriteTags a task saw acknowledged
    aborting,             \* history: a run of create_commitment was told to abort
    batches,              \* history: the WriteTags requests a run has submitted
    retained,             \* history: the runs whose InProgress entry a retain drained
    providers,            \* MemoryProviderStorage::providers
    prov_log,             \* history: the calls made on the provider storage
    value_getter,         \* GetOnlyRecordStorage::value_getter
    g_first,              \* history: what the first get of every key returned
    g_last,               \* history: the last call on the get-only storage
    mutex                 \* the task that holds the guard of commitment_statuses

plotVars == <<plot_file, piece_count, commitments, commitment_statuses,
              read_requests, write_requests, any_requests, did_nothing, epc,
              pc, op, drv, reply, result, calls, mine, clobbered, scn,
              recreated, dirty>>
findVars == <<f_db, f_target, f_range, f_solutions, f_out, f_done>>
storeVars == <<inner, heap, local_peer, max_items, s_hist, s_last>>
parityVars == <<p_db, p_hist>>
shutdownVars == <<senders, plot_db, synced>>
serialVars == <<in_service>>
orderVars == <<acked>>
NoTags == [served |-> {}, seen |-> {}]
\* The state of the models of single aspects.
cancelVars == <<aborting, batches, retained>>
providerVars == <<providers, prov_log>>
getOnlyVars == <<value_getter, g_first, g_last>>
storageVars == <<providerVars, getOnlyVars>>
lockVars == <<mutex>>
sideVars == <<serialVars, orderVars, cancelVars, storageVars, lockVars>>
vars == <<plotVars, findVars, storeVars, parityVars, shutdownVars, sideVars>>
\* What the loop and the public calls of a live plot leave alone.
otherVars == <<findVars, storeVars, parityVars, shutdownVars, sideVars>>

(***************************************************************************)
(* Sizes.                                                                  *)
(***************************************************************************)
\* Number of values of a byte (256 in the program).
BYTE == 8
\* Bytes of a Tag and of a u64 (8 in the program).
TAG_LEN == 2
\* Bytes of a piece (crate::PIECE_SIZE).
PIECE_SIZE == 2
\* Pieces per WriteTags batch (crate::BATCH_SIZE).
BATCH_SIZE == 2
\* Buffer of the wake channel, async_mpsc::channel::<()>(1).
ANY_CAPACITY == 1
\* Buffer of the read and of the write channel.
QUEUE_CAPACITY == 100

\* Public calls started in one behaviour.
MaxCalls == 3

\* Client tasks holding a clone of the Plot.
Clients == {1, 2}
Salts == {1, 2}
\* The salt of the calls of a farmer that keeps one commitment.
SingleSalt == {1}
\* write_many: the first_index and the number of pieces of a call.
FirstIndexes == {0, 1}
Lengths == {0, 1, 2}
\* read: the indexes asked for.
Indexes == {0, 1, 2}
\* The "u64" of the model (BYTE^TAG_LEN values).
WORD == BYTE * BYTE

RECURSIVE Concat(_)
Concat(ss) == IF ss = <<>> THEN <<>> ELSE Head(ss) \o Concat(Tail(ss))

Max(a, b) == IF a >= b THEN a ELSE b
Min(a, b) == IF a <= b THEN a ELSE b

(***************************************************************************)
(* Byte conversions.                                                       *)
(***************************************************************************)
RECURSIVE FromBeBytes(_)
FromBeBytes(b) ==
    IF b = <<>> THEN 0
    ELSE FromBeBytes(SubSeq(b, 1, Len(b) - 1)) * BYTE + b[Len(b)]

RECURSIVE FromLeBytes(_)
FromLeBytes(b) ==
    IF b = <<>> THEN 0 ELSE b[1] + BYTE * FromLeBytes(Tail(b))

RECURSIVE ToLeBytesN(_, _)
ToLeBytesN(n, len) ==
    IF len = 0 THEN <<>> ELSE <<n % BYTE>> \o ToLeBytesN(n \div BYTE, len - 1)

RECURSIVE ToBeBytesN(_, _)
ToBeBytesN(n, len) ==
    IF len = 0 THEN <<>> ELSE ToBeBytesN(n \div BYTE, len - 1) \o <<n % BYTE>>

ToLeBytes(n) == ToLeBytesN(n, TAG_LEN)
ToBeBytes(n) == ToBeBytesN(n, TAG_LEN)

\* Order of the keys of a tags database: bytewise, as RocksDB compares keys.
RECURSIVE BytesLess(_, _)
BytesLess(a, b) ==
    IF b = <<>> THEN FALSE
    ELSE IF a = <<>> THEN TRUE
    ELSE IF a[1] # b[1] THEN a[1] < b[1]
    ELSE BytesLess(Tail(a), Tail(b))

BytesLeq(a, b) == a = b \/ BytesLess(a, b)

(***************************************************************************)
(* Results sent over a oneshot channel and returned by public calls.       *)
(***************************************************************************)
Pending == [state |-> "pending", val |-> "none"]
Ok(v) == [state |-> "ok", val |-> v]
Err(e) == [state |-> "err", val |-> e]
Unit == "unit"
None == <<>>
Some(x) == <<x>>

(***************************************************************************)
(* The piece a client writes at an index, and the tag of a piece.          *)
(***************************************************************************)
\* Encodings are keyed by their index, so pieces at distinct indexes differ.
PieceOf(c, i) == [j \in 1..PIECE_SIZE |-> IF j = 1 THEN c ELSE i + 1]

\* crypto::create_tag, an opaque keyed hash of a piece under a salt.
create_tag(piece, salt) ==
    ToBeBytes((piece[1] * 7 + piece[PIECE_SIZE] * 13 + salt * 29) % WORD)

(***************************************************************************)
(* The plot file.                                                          *)
(***************************************************************************)
\* seek(SeekFrom::Start(offset)) then read_exact of len bytes.
ReadExact(file, offset, len) ==
    IF offset + len > Len(file)
    THEN Err("UnexpectedEof")
    ELSE Ok(SubSeq(file, offset + 1, offset + len))

\* ReadRequests::ReadEncoding
ReadEncoding(file, index) == ReadExact(file, index * PIECE_SIZE, PIECE_SIZE)

\* ReadRequests::ReadEncodings
ReadEncodings(file, first_index, count) ==
    ReadExact(file, first_index * PIECE_SIZE, count * PIECE_SIZE)

\* A faulty variant: a seek past the end of the file leaves no hole, the
\* data lands at the end of the file.
WriteAllAtEnd(file, offset, data) ==
    LET at == Min(offset, Len(file))
    IN  [j \in 1..Max(Len(file), at + Len(data)) |->
            IF j > at /\ j <= at + Len(data) THEN data[j - at] ELSE file[j]]

\* seek(SeekFrom::Start(offset)) then write_all(data); a seek past the end
\* leaves a hole that reads as zeros.
WriteAll(file, offset, data) ==
    LET newLen == Max(Len(file), offset + Len(data))
    IN  [j \in 1..newLen |->
            IF j > offset /\ j <= offset + Len(data) THEN data[j - offset]
            ELSE IF j <= Len(file) THEN file[j]
            ELSE 0]

\* A faulty variant: the seek offset is the piece index, not a byte offset.
WriteEncodingsUnscaled(file, first_index, encodings) ==
    WriteAll(file, first_index, Concat(encodings))

\* WriteRequests::WriteEncodings: the file after the request.
WriteEncodings(file, first_index, encodings) ==
    WriteAll(file, first_index * PIECE_SIZE, Concat(encodings))

\* A faulty variant: the number of pieces written is left out.
FetchMaxFirstIndex(count, first_index, encodings) ==
    Max(count, first_index)

\* WriteRequests::WriteEncodings: piece_count.fetch_max(first_index + len).
FetchMax(count, first_index, encodings) ==
    Max(count, first_index + Len(encodings))

(***************************************************************************)
(* A tags database: a function from keys (tags, big endian) to values      *)
(* (piece indexes, little endian), iterated in the order of its keys.      *)
(***************************************************************************)
EmptyDb == <<>>

RECURSIVE SortedKeys(_)
SortedKeys(keys) ==
    IF keys = {} THEN <<>>
    ELSE LET k == CHOOSE x \in keys : \A y \in keys : BytesLeq(x, y)
         IN  <<k>> \o SortedKeys(keys \ {k})

\* tags_db.put(key, value)
DbPut(db, key, value) ==
    [k \in (DOMAIN db) \cup {key} |-> IF k = key THEN value ELSE db[k]]

\* A faulty variant: the first key > key.
SeekPast(keys, key) ==
    LET before == {p \in 1..Len(keys) : BytesLeq(keys[p], key)}
    IN  Cardinality(before) + 1

\* iter.seek(key): position of the first key >= key in the sorted keys.
Seek(keys, key) ==
    LET before == {p \in 1..Len(keys) : BytesLess(keys[p], key)}
    IN  Cardinality(before) + 1

\* A faulty variant: a scan that never breaks on tag > upper.
RECURSIVE ScanUnbounded(_, _, _, _, _)
ScanUnbounded(db, keys, pos, bounded, upper) ==
    IF pos > Len(keys) THEN <<>>
    ELSE <<  <<keys[pos], FromLeBytes(db[keys[pos]])>>  >>
         \o ScanUnbounded(db, keys, pos + 1, bounded, upper)

\* A scan from position pos: `while let Some(tag) = iter.key()`, pushing the
\* entry and calling iter.next(), with the break on tag > upper when bounded.
RECURSIVE Scan(_, _, _, _, _)
Scan(db, keys, pos, bounded, upper) ==
    IF pos > Len(keys) THEN <<>>
    ELSE IF bounded /\ ~(FromBeBytes(keys[pos]) <= upper) THEN <<>>
    ELSE <<  <<keys[pos], FromLeBytes(db[keys[pos]])>>  >>
         \o Scan(db, keys, pos + 1, bounded, upper)

\* A faulty variant: the overflow of lower and upper is not looked at.
SolutionsNoWrap(db, target, range) ==
    LET t == FromBeBytes(target)
        half == range \div 2
        lower == (t + WORD - half) % WORD
        upper == (t + half) % WORD
        keys == SortedKeys(DOMAIN db)
    IN  Scan(db, keys, Seek(keys, ToBeBytes(lower)), TRUE, upper)

\* ReadRequests::FindByRange: the solutions vector the blocking task builds.
Solutions(db, target, range) ==
    LET t == FromBeBytes(target)
        half == range \div 2
        lower == (t + WORD - half) % WORD
        is_lower_overflowed == t < half
        upper == (t + half) % WORD
        is_upper_overflowed == t + half >= WORD
        keys == SortedKeys(DOMAIN db)
    IN  IF is_lower_overflowed \/ is_upper_overflowed
        THEN Scan(db, keys, 1, TRUE, upper)
             \o Scan(db, keys, Seek(keys, ToBeBytes(lower)), FALSE, upper)
        ELSE Scan(db, keys, Seek(keys, ToBeBytes(lower)), TRUE, upper)

\* A faulty variant: the last solution is sent back.
FindByRangeLast(db, target, range) ==
    LET solutions == Solutions(db, target, range)
    IN  IF solutions = <<>> THEN None ELSE Some(solutions[Len(solutions)])

\* ReadRequests::FindByRange: solutions.into_iter().next()
FindByRange(db, target, range) ==
    LET solutions == Solutions(db, target, range)
    IN  IF solutions = <<>> THEN None ELSE Some(Head(solutions))

\* A faulty variant: only the first tag of the batch is put.
WriteFirstTag(db, first_index, tags) ==
    IF tags = <<>> THEN db
    ELSE DbPut(db, Head(tags), ToLeBytes(first_index))

\* WriteRequests::WriteTags: tags.iter().zip(first_index..) put one by one.
RECURSIVE WriteTags(_, _, _)
WriteTags(db, first_index, tags) ==
    IF tags = <<>> THEN db
    ELSE WriteTags(DbPut(db, Head(tags), ToLeBytes(first_index)),
                   first_index + 1, Tail(tags))

(***************************************************************************)
(* Commitments: the directory of tags databases, one per salt.             *)
(***************************************************************************)
NoDb == [state |-> "absent", tags |-> EmptyDb]

\* Commitments::get_or_create_db
get_or_create_db(cs, salt) ==
    IF cs[salt].state = "absent"
    THEN [cs EXCEPT ![salt] = [state |-> "inprogress", tags |-> EmptyDb]]
    ELSE cs

\* Commitments::finish_commitment_creation
finish_commitment_creation(cs, salt) ==
    IF cs[salt].state = "absent" THEN cs
    ELSE [cs EXCEPT ![salt].state = "finished"]

\* Commitments::remove_commitment
commitments_remove(cs, salt) == [cs EXCEPT ![salt] = NoDb]

OnDisk(salt) == commitments[salt].state # "absent"


(***************************************************************************)
(* Initial state of the plot: an empty base directory.                     *)
(***************************************************************************)
NoOp == [name |-> "none"]
NoDrv == [stage |-> "call", piece_count |-> 0, batch_start |-> 0,
          rm_salt |-> 0, todo |-> <<>>]
NoWrite == [served |-> FALSE, first_index |-> 0, encodings |-> <<>>]

\* The three channels of the background task.
Channels == {"any", "read", "write"}

\* A faulty variant: a receiver never learns that its channel is closed.
NeverClosed(channel) == FALSE

\* The receiver of a channel sees it closed: Inner dropped its sender.
Closed(channel) == channel \notin senders

\* Plot::open_or_create on a directory whose plot.bin holds `file` and that
\* has no commitments.
OpenedOn(file) ==
    /\ plot_file = file
    /\ piece_count = Len(plot_file) \div PIECE_SIZE
    /\ commitments = [s \in Salts |-> NoDb]
    /\ commitment_statuses = [s \in Salts |-> "absent"]
    /\ read_requests = <<>>
    /\ write_requests = <<>>
    /\ any_requests = 0
    /\ did_nothing = TRUE
    /\ epc = "wait"
    /\ pc = [c \in Clients |-> "idle"]
    /\ op = [c \in Clients |-> NoOp]
    /\ drv = [c \in Clients |-> NoDrv]
    /\ reply = [c \in Clients |-> Pending]
    /\ result = [c \in Clients |-> Pending]
    /\ calls = 0
    /\ mine = [c \in Clients |-> NoWrite]
    /\ clobbered = [c \in Clients |-> {}]
    /\ scn = [c \in Clients |-> "none"]
    /\ recreated = [c \in Clients |-> FALSE]
    /\ dirty = [c \in Clients |-> FALSE]
    /\ senders = Channels
    /\ plot_db = "held"
    /\ synced = FALSE
    /\ in_service = {}
    /\ acked = [c \in Clients |-> [s \in Salts |-> NoTags]]
    /\ aborting = [c \in Clients |-> "no"]
    /\ batches = [c \in Clients |-> <<>>]
    /\ retained = {}
    /\ providers = <<>>
    /\ prov_log = <<>>
    /\ value_getter = None
    /\ g_first = <<>>
    /\ mutex = 0
    /\ g_last = [n |-> 0, writes |-> 0, kind |-> "none", key |-> <<>>,
                 out |-> Ok(Unit)]

\* Plot::open_or_create on an empty directory.
InitPlot == OpenedOn(<<>>)

engineVars == <<plot_file, piece_count, commitments>>
queueVars == <<read_requests, write_requests, any_requests>>
loopVars == <<did_nothing, epc>>
clientVars == <<pc, op, drv, result, calls>>
histVars == <<mine, clobbered, scn, recreated, dirty>>

(***************************************************************************)
(* The background task of Plot::open_or_create.                            *)
(***************************************************************************)
\* `if did_nothing { any_requests_receiver.next().await }`
WaitForRequests ==
    /\ epc = "wait"
    /\ any_requests > 0
    /\ any_requests' = any_requests - 1
    /\ did_nothing' = TRUE
    /\ epc' = "reads"
    /\ UNCHANGED <<engineVars, commitment_statuses, read_requests,
                   write_requests, clientVars, reply, histVars>>
    /\ UNCHANGED otherVars

\* A faulty variant: after a write the loop takes the next write at once.
WriteAgain(did) ==
    /\ did_nothing' = TRUE
    /\ epc' = IF did THEN "wait" ELSE "write"

\* A faulty variant: the loop waits for a wake signal after every iteration.
LoopAlwaysWaits(did) ==
    /\ did_nothing' = TRUE
    /\ epc' = "wait"

\* The end of one iteration of 'outer and the test at the top of the next.
LoopAgain(did) ==
    /\ did_nothing' = TRUE
    /\ epc' = IF did THEN "wait" ELSE "reads"

ReadHead(kind) ==
    /\ epc = "reads"
    /\ read_requests # <<>>
    /\ Head(read_requests).kind = kind

WriteHead(kind) ==
    /\ epc = "write"
    /\ write_requests # <<>>
    /\ Head(write_requests).kind = kind

\* History: a later request opened the index of salt again.
Reopened(salt) ==
    [c \in Clients |->
        IF op[c].name = "remove_commitment" /\ op[c].salt = salt
        THEN TRUE ELSE recreated[c]]

\* History: a third task touched the salt of a create_commitment run.
Spoiled(salt, except) ==
    [c \in Clients |->
        IF c # except /\ op[c].name = "create_commitment" /\ op[c].salt = salt
        THEN "spoiled" ELSE scn[c]]

\* ReadRequests::ReadEncoding
ServeReadEncoding ==
    /\ ReadHead("ReadEncoding")
    /\ LET req == Head(read_requests)
       IN  reply' = [reply EXCEPT ![req.from] = ReadEncoding(plot_file, req.index)]
    /\ read_requests' = Tail(read_requests)
    /\ did_nothing' = FALSE
    /\ UNCHANGED <<engineVars, commitment_statuses, write_requests,
                   any_requests, epc, clientVars, histVars>>
    /\ UNCHANGED otherVars

\* ReadRequests::ReadEncodings
ServeReadEncodings ==
    /\ ReadHead("ReadEncodings")
    /\ LET req == Head(read_requests)
       IN  reply' = [reply EXCEPT ![req.from] =
                        ReadEncodings(plot_file, req.first_index, req.count)]
    /\ read_requests' = Tail(read_requests)
    /\ did_nothing' = FALSE
    /\ UNCHANGED <<engineVars, commitment_statuses, write_requests,
                   any_requests, epc, clientVars, histVars>>
    /\ UNCHANGED otherVars

\* ReadRequests::FindByRange
ServeFindByRange ==
    /\ ReadHead("FindByRange")
    /\ LET req == Head(read_requests)
           cs == get_or_create_db(commitments, req.salt)
       IN  /\ commitments' = cs
           /\ reply' = [reply EXCEPT ![req.from] =
                  Ok(FindByRange(cs[req.salt].tags, req.target, req.range))]
           /\ recreated' = Reopened(req.salt)
           /\ scn' = Spoiled(req.salt, 0)
    /\ read_requests' = Tail(read_requests)
    /\ did_nothing' = FALSE
    /\ UNCHANGED <<plot_file, piece_count, commitment_statuses, write_requests,
                   any_requests, epc, clientVars, mine, clobbered, dirty>>
    /\ UNCHANGED otherVars

\* `while let Ok(read_request) = read_requests_receiver.try_next()` ends.
ReadsExhausted ==
    /\ epc = "reads"
    /\ read_requests = <<>>
    /\ ~Closed("read")
    /\ epc' = "write"
    /\ UNCHANGED <<engineVars, commitment_statuses, queueVars, did_nothing,
                   clientVars, reply, histVars>>
    /\ UNCHANGED otherVars

\* History of write_many: the indexes of served writes that a later write hit.
Clobber(from, first_index, encodings) ==
    [c \in Clients |->
        IF c = from THEN {}
        ELSE IF mine[c].served
             THEN clobbered[c] \cup (first_index..(first_index + Len(encodings) - 1))
             ELSE clobbered[c]]

\* WriteRequests::WriteEncodings
ServeWriteEncodings ==
    /\ WriteHead("WriteEncodings")
    /\ LET req == Head(write_requests)
       IN  /\ plot_file' = WriteEncodings(plot_file, req.first_index, req.encodings)
           /\ piece_count' = FetchMax(piece_count, req.first_index, req.encodings)
           /\ reply' = [reply EXCEPT ![req.from] = Ok(Unit)]
           /\ mine' = [mine EXCEPT ![req.from].served = TRUE]
           /\ clobbered' = Clobber(req.from, req.first_index, req.encodings)
           /\ dirty' = [c \in Clients |-> TRUE]
    /\ write_requests' = Tail(write_requests)
    /\ LoopAgain(FALSE)
    /\ UNCHANGED <<commitments, commitment_statuses, read_requests,
                   any_requests, clientVars, scn, recreated>>
    /\ UNCHANGED otherVars

\* WriteRequests::WriteTags
WriteTagsServed ==
    /\ WriteHead("WriteTags")
    /\ LET req == Head(write_requests)
           cs == get_or_create_db(commitments, req.salt)
       IN  /\ commitments' = [cs EXCEPT ![req.salt].tags =
                                 WriteTags(@, req.first_index, req.tags)]
           /\ reply' = [reply EXCEPT ![req.from] = Ok(Unit)]
           /\ recreated' = Reopened(req.salt)
    /\ write_requests' = Tail(write_requests)
    /\ LoopAgain(FALSE)
    /\ UNCHANGED <<plot_file, piece_count, commitment_statuses, read_requests,
                   any_requests, clientVars, mine, clobbered, scn, dirty>>

ServeWriteTags ==
    /\ WriteTagsServed
    /\ UNCHANGED otherVars

\* WriteRequests::FinishCommitmentCreation
ServeFinishCommitmentCreation ==
    /\ WriteHead("FinishCommitmentCreation")
    /\ LET req == Head(write_requests)
       IN  /\ commitments' = finish_commitment_creation(commitments, req.salt)
           /\ reply' = [reply EXCEPT ![req.from] = Ok(Unit)]
    /\ write_requests' = Tail(write_requests)
    /\ LoopAgain(FALSE)
    /\ UNCHANGED <<plot_file, piece_count, commitment_statuses, read_requests,
                   any_requests, clientVars, histVars>>
    /\ UNCHANGED otherVars

\* WriteRequests::RemoveCommitment
RemoveCommitmentServed ==
    /\ WriteHead("RemoveCommitment")
    /\ LET req == Head(write_requests)
       IN  /\ commitments' = commitments_remove(commitments, req.salt)
           /\ reply' = [reply EXCEPT ![req.from] = Ok(Unit)]
           /\ recreated' = [recreated EXCEPT ![req.from] = FALSE]
    /\ write_requests' = Tail(write_requests)
    /\ LoopAgain(FALSE)
    /\ UNCHANGED <<plot_file, piece_count, commitment_statuses, read_requests,
                   any_requests, clientVars, mine, clobbered, scn, dirty>>

ServeRemoveCommitment ==
    /\ RemoveCommitmentServed
    /\ UNCHANGED otherVars

\* write_requests_receiver.try_next() is Err(_): no write request is queued.
NoWriteRequest ==
    /\ epc = "write"
    /\ write_requests = <<>>
    /\ ~Closed("write")
    /\ LoopAgain(did_nothing)
    /\ UNCHANGED <<engineVars, commitment_statuses, queueVars, clientVars,
                   reply, histVars>>
    /\ UNCHANGED otherVars


(***************************************************************************)
(* Client tasks: the public methods of Plot.                               *)
(***************************************************************************)
\* Plot::is_empty
is_empty == piece_count = 0

CanCall(c) ==
    /\ pc[c] = "idle"
    /\ calls < MaxCalls
    /\ calls' = calls + 1

\* `....send(request).await` on the read channel, with a fresh oneshot.
SendRead(c, request) ==
    /\ Len(read_requests) < QUEUE_CAPACITY
    /\ read_requests' = Append(read_requests, request)
    /\ reply' = [reply EXCEPT ![c] = Pending]
    /\ pc' = [pc EXCEPT ![c] = "notify"]

\* `....send(request).await` on the write channel, with a fresh oneshot.
SendWrite(c, request) ==
    /\ Len(write_requests) < QUEUE_CAPACITY
    /\ write_requests' = Append(write_requests, request)
    /\ reply' = [reply EXCEPT ![c] = Pending]
    /\ pc' = [pc EXCEPT ![c] = "notify"]

\* `let _ = any_requests_sender.clone().unwrap().try_send(());`
Notify(c) ==
    /\ pc[c] = "notify"
    /\ any_requests' = Min(any_requests + 1, ANY_CAPACITY)
    /\ pc' = [pc EXCEPT ![c] = "await"]
    /\ UNCHANGED <<engineVars, commitment_statuses, read_requests,
                   write_requests, loopVars, op, drv, reply, result, calls,
                   histVars>>
    /\ UNCHANGED otherVars

\* `result_receiver.await` has a value, in the call `name` at stage `stage`.
Replied(c, name, stage) ==
    /\ pc[c] = "await"
    /\ op[c].name = name
    /\ drv[c].stage = stage
    /\ reply[c].state # "pending"

\* The oneshot sender of a request was dropped with nothing sent.
Dropped == [state |-> "dropped", val |-> "none"]

SENDER_DROPPED == "result sender was dropped"

\* `result_receiver.await.map_err(...)?`: what the call gets from the channel.
Received(r) == IF r = Dropped THEN Err(SENDER_DROPPED) ELSE r

\* The end of a public call.
Return(c, value) ==
    /\ pc' = [pc EXCEPT ![c] = "idle"]
    /\ result' = [result EXCEPT ![c] = value]
    /\ drv' = [drv EXCEPT ![c] = NoDrv]

\* Plot::write_many
WriteManyCall(c, first_index, n) ==
    /\ CanCall(c)
    /\ LET encodings == [k \in 1..n |-> PieceOf(c, first_index + k - 1)]
       IN  /\ op' = [op EXCEPT ![c] = [name |-> "write_many",
                         first_index |-> first_index, encodings |-> encodings]]
           /\ IF encodings = <<>>
              THEN /\ Return(c, Ok(Unit))
                   /\ UNCHANGED <<write_requests, reply, mine, clobbered>>
              ELSE /\ SendWrite(c, [kind |-> "WriteEncodings",
                          encodings |-> encodings, first_index |-> first_index,
                          from |-> c])
                   /\ mine' = [mine EXCEPT ![c] = [served |-> FALSE,
                          first_index |-> first_index, encodings |-> encodings]]
                   /\ clobbered' = [clobbered EXCEPT ![c] = {}]
                   /\ UNCHANGED <<result, drv>>
    /\ UNCHANGED <<engineVars, commitment_statuses, read_requests,
                   any_requests, loopVars, scn, recreated, dirty>>
    /\ UNCHANGED otherVars

WriteManyReturn(c) ==
    /\ Replied(c, "write_many", "call")
    /\ Return(c, Received(reply[c]))
    /\ UNCHANGED <<engineVars, commitment_statuses, queueVars, loopVars, op,
                   reply, calls, histVars>>
    /\ UNCHANGED otherVars

\* Plot::read
ReadCall(c, index) ==
    /\ CanCall(c)
    /\ op' = [op EXCEPT ![c] = [name |-> "read", index |-> index]]
    /\ SendRead(c, [kind |-> "ReadEncoding", index |-> index, from |-> c])
    /\ UNCHANGED <<engineVars, commitment_statuses, write_requests,
                   any_requests, loopVars, drv, result, histVars>>
    /\ UNCHANGED otherVars

ReadReturn(c) ==
    /\ Replied(c, "read", "call")
    /\ Return(c, Received(reply[c]))
    /\ UNCHANGED <<engineVars, commitment_statuses, queueVars, loopVars, op,
                   reply, calls, histVars>>
    /\ UNCHANGED otherVars

\* Plot::find_by_range
FindByRangeCall(c, target, range, salt) ==
    /\ CanCall(c)
    /\ op' = [op EXCEPT ![c] = [name |-> "find_by_range", target |-> target,
                                range |-> range, salt |-> salt]]
    /\ SendRead(c, [kind |-> "FindByRange", target |-> target,
                    range |-> range, salt |-> salt, from |-> c])
    /\ UNCHANGED <<engineVars, commitment_statuses, write_requests,
                   any_requests, loopVars, drv, result, histVars>>
    /\ UNCHANGED otherVars

FindByRangeReturn(c) ==
    /\ Replied(c, "find_by_range", "call")
    /\ Return(c, Received(reply[c]))
    /\ UNCHANGED <<engineVars, commitment_statuses, queueVars, loopVars, op,
                   reply, calls, histVars>>
    /\ UNCHANGED otherVars


(***************************************************************************)
(* Plot::remove_commitment, also called by create_commitment and by        *)
(* retain_commitments.                                                     *)
(***************************************************************************)
ABORTED == "Commitment creation was aborted"

\* What the caller `name` of remove_commitment does when it returns Ok(()).
\* A faulty variant: the driver never finds its run Aborted.
NeverAborted(salt) ==
    FALSE

\* `if let Some(CommitmentStatus::Aborted) = commitment_statuses.get(&salt)`
SeesAborted(salt) ==
    commitment_statuses[salt] = "Aborted"

\* A faulty variant: an Aborted entry is removed like a Created one.
DeletionDelayedInProgressOnly(status) ==
    status = "InProgress"

\* A faulty variant: the removal of a Created salt is delayed as well.
DeletionDelayedForAny(status) ==
    status # "absent"

\* `matches!(entry.get(), CommitmentStatus::InProgress | CommitmentStatus::Aborted)`
DeletionDelayed(status) ==
    status \in {"InProgress", "Aborted"}

AfterRemove(c, name) ==
    IF name = "retain_commitments" /\ drv[c].todo # <<>>
    THEN /\ pc' = [pc EXCEPT ![c] = "rm_lock"]
         /\ drv' = [drv EXCEPT ![c] = [NoDrv EXCEPT !.rm_salt = Head(drv[c].todo),
                                                    !.todo = Tail(drv[c].todo)]]
         /\ UNCHANGED result
    ELSE Return(c, IF name = "create_commitment" THEN Err(ABORTED) ELSE Ok(Unit))

\* History: remove_commitment marked the run of a lone driver Aborted.
MarkAborted(salt, found) ==
    [d \in Clients |->
        IF /\ found = "InProgress"
           /\ op[d].name = "create_commitment"
           /\ op[d].salt = salt
           /\ pc[d] # "idle"
           /\ scn[d] = "clean"
        THEN "aborted" ELSE scn[d]]

\* The block of remove_commitment that holds the lock of commitment_statuses.
RemoveLocked(c, salt, name) ==
    IF DeletionDelayed(commitment_statuses[salt])
    THEN /\ commitment_statuses' = [commitment_statuses EXCEPT ![salt] = "Aborted"]
         /\ scn' = MarkAborted(salt, commitment_statuses[salt])
         /\ AfterRemove(c, name)
    ELSE /\ commitment_statuses' = [commitment_statuses EXCEPT ![salt] = "absent"]
         /\ pc' = [pc EXCEPT ![c] = "rm_send"]
         /\ drv' = [drv EXCEPT ![c].rm_salt = salt]
         /\ UNCHANGED <<result, scn>>

RemoveCommitmentCalled(c, salt) ==
    /\ CanCall(c)
    /\ op' = [op EXCEPT ![c] = [name |-> "remove_commitment", salt |-> salt,
                                found |-> commitment_statuses[salt]]]
    /\ recreated' = [recreated EXCEPT ![c] = FALSE]
    /\ RemoveLocked(c, salt, "remove_commitment")
    /\ UNCHANGED <<engineVars, queueVars, loopVars, reply, mine, clobbered,
                   dirty>>

RemoveCommitmentCall(c, salt) ==
    /\ RemoveCommitmentCalled(c, salt)
    /\ UNCHANGED otherVars

\* remove_commitment called from create_commitment or retain_commitments.
RemoveLockTaken(c) ==
    /\ pc[c] = "rm_lock"
    /\ RemoveLocked(c, drv[c].rm_salt, op[c].name)
    /\ UNCHANGED <<engineVars, queueVars, loopVars, op, reply, calls, mine,
                   clobbered, recreated, dirty>>

RemoveLock(c) ==
    /\ RemoveLockTaken(c)
    /\ UNCHANGED otherVars

RemoveSend(c) ==
    /\ pc[c] = "rm_send"
    /\ SendWrite(c, [kind |-> "RemoveCommitment", salt |-> drv[c].rm_salt,
                     from |-> c])
    /\ drv' = [drv EXCEPT ![c].stage = "rm"]
    /\ UNCHANGED <<engineVars, commitment_statuses, read_requests,
                   any_requests, loopVars, op, result, calls, histVars>>
    /\ UNCHANGED otherVars

RemoveReturn(c) ==
    /\ pc[c] = "await"
    /\ drv[c].stage = "rm"
    /\ reply[c].state # "pending"
    /\ IF reply[c].state # "ok"
       THEN Return(c, Received(reply[c]))
       ELSE AfterRemove(c, op[c].name)
    /\ UNCHANGED <<engineVars, commitment_statuses, queueVars, loopVars, op,
                   reply, calls, histVars>>
    /\ UNCHANGED otherVars

(***************************************************************************)
(* Plot::create_commitment                                                 *)
(***************************************************************************)
Running(d, salt) ==
    /\ pc[d] # "idle"
    /\ op[d].name = "create_commitment"
    /\ op[d].salt = salt

\* A faulty variant: any entry of the salt ends the call at once.
HasEntry(salt) ==
    commitment_statuses[salt] # "absent"

\* `if let Some(CommitmentStatus::Created) = commitment_statuses.get(&salt)`
AlreadyCreated(salt) ==
    commitment_statuses[salt] = "Created"

CreateCommitmentCalled(c, salt) ==
    /\ CanCall(c)
    /\ op' = [op EXCEPT ![c] = [name |-> "create_commitment", salt |-> salt,
                                count_at_call |-> piece_count]]
    /\ dirty' = [dirty EXCEPT ![c] = FALSE]
    /\ IF AlreadyCreated(salt)
       THEN /\ Return(c, Ok(Unit))
            /\ scn' = [Spoiled(salt, c) EXCEPT ![c] = "early"]
            /\ UNCHANGED commitment_statuses
       ELSE /\ commitment_statuses' =
                    [commitment_statuses EXCEPT ![salt] = "InProgress"]
            /\ pc' = [pc EXCEPT ![c] = "cc_load"]
            /\ scn' = [Spoiled(salt, c) EXCEPT ![c] =
                          IF \E d \in Clients \ {c} : Running(d, salt)
                          THEN "spoiled" ELSE "clean"]
            /\ UNCHANGED <<result, drv>>
    /\ UNCHANGED <<engineVars, queueVars, loopVars, reply, mine, clobbered,
                   recreated>>

CreateCommitmentCall(c, salt) ==
    /\ CreateCommitmentCalled(c, salt)
    /\ UNCHANGED otherVars

\* `let piece_count = self.inner.piece_count.load(Ordering::Acquire);`
CreateCommitmentLoad(c) ==
    /\ pc[c] = "cc_load"
    /\ drv' = [drv EXCEPT ![c].piece_count = piece_count, ![c].batch_start = 0]
    /\ pc' = [pc EXCEPT ![c] = "cc_check"]
    /\ UNCHANGED <<engineVars, commitment_statuses, queueVars, loopVars, op,
                   reply, result, calls, histVars>>
    /\ UNCHANGED otherVars

\* A faulty variant: the loop ends one batch early.
BatchHeadStopsEarly(c, batch_start) ==
    IF /\ batch_start + BATCH_SIZE < drv[c].piece_count
       /\ commitment_statuses[op[c].salt] # "Aborted"
    THEN "cc_read_send"
    ELSE "cc_post"

\* The head of `for batch_start in (0..piece_count).step_by(BATCH_SIZE)` and
\* the test of the status at the start of its body.
BatchHead(c, batch_start) ==
    IF /\ batch_start < drv[c].piece_count
       /\ ~SeesAborted(op[c].salt)
    THEN "cc_read_send"
    ELSE "cc_post"

CreateCommitmentCheck(c) ==
    /\ pc[c] = "cc_check"
    /\ pc' = [pc EXCEPT ![c] = BatchHead(c, drv[c].batch_start)]
    /\ UNCHANGED <<engineVars, commitment_statuses, queueVars, loopVars, op,
                   drv, reply, result, calls, histVars>>
    /\ UNCHANGED otherVars

pieces_to_process(batch_start, count) ==
    Min(batch_start + BATCH_SIZE, count) - batch_start

\* Plot::read_pieces, called for one batch.
CreateCommitmentRead(c) ==
    /\ pc[c] = "cc_read_send"
    /\ SendRead(c, [kind |-> "ReadEncodings",
                    first_index |-> drv[c].batch_start,
                    count |-> pieces_to_process(drv[c].batch_start,
                                                drv[c].piece_count),
                    from |-> c])
    /\ drv' = [drv EXCEPT ![c].stage = "read"]
    /\ UNCHANGED <<engineVars, commitment_statuses, write_requests,
                   any_requests, loopVars, op, result, calls, histVars>>
    /\ UNCHANGED otherVars

\* `pieces.par_chunks_exact(PIECE_SIZE).map(|piece| create_tag(piece, &salt))`
TagsOf(pieces, salt) ==
    [k \in 1..(Len(pieces) \div PIECE_SIZE) |->
        create_tag(SubSeq(pieces, (k - 1) * PIECE_SIZE + 1, k * PIECE_SIZE), salt)]

\* The pieces of the batch arrive; their tags are sent as WriteTags.
TagsSubmitted(c) ==
    /\ Replied(c, "create_commitment", "read")
    /\ IF reply[c].state # "ok"
       THEN /\ Return(c, Received(reply[c]))
            /\ UNCHANGED <<write_requests, reply>>
       ELSE /\ SendWrite(c, [kind |-> "WriteTags",
                             first_index |-> drv[c].batch_start,
                             tags |-> TagsOf(reply[c].val, op[c].salt),
                             salt |-> op[c].salt,
                             from |-> c])
            /\ drv' = [drv EXCEPT ![c].stage = "tags"]
            /\ UNCHANGED result
    /\ UNCHANGED <<engineVars, commitment_statuses, read_requests,
                   any_requests, loopVars, op, calls, histVars>>

CreateCommitmentWriteTags(c) ==
    /\ TagsSubmitted(c)
    /\ UNCHANGED otherVars

\* The acknowledgement of WriteTags arrives; the loop goes to its next batch.
WriteTagsAcknowledged(c) ==
    /\ Replied(c, "create_commitment", "tags")
    /\ IF reply[c].state # "ok"
       THEN Return(c, Received(reply[c]))
       ELSE /\ drv' = [drv EXCEPT ![c].batch_start = @ + BATCH_SIZE,
                                  ![c].stage = "call"]
            /\ pc' = [pc EXCEPT ![c] =
                         BatchHead(c, drv[c].batch_start + BATCH_SIZE)]
            /\ UNCHANGED result
    /\ UNCHANGED <<engineVars, commitment_statuses, queueVars, loopVars, op,
                   reply, calls, histVars>>

CreateCommitmentNextBatch(c) ==
    /\ WriteTagsAcknowledged(c)
    /\ UNCHANGED otherVars

\* `let aborted = { ... }` after the loop.
CreateCommitmentAbortedAfterLoop(c) ==
    /\ pc[c] = "cc_post"
    /\ IF SeesAborted(op[c].salt)
       THEN /\ commitment_statuses' =
                    [commitment_statuses EXCEPT ![op[c].salt] = "absent"]
            /\ pc' = [pc EXCEPT ![c] = "rm_lock"]
            /\ drv' = [drv EXCEPT ![c].rm_salt = op[c].salt]
       ELSE /\ pc' = [pc EXCEPT ![c] = "cc_finish_send"]
            /\ UNCHANGED <<commitment_statuses, drv>>
    /\ UNCHANGED <<engineVars, queueVars, loopVars, op, reply, result, calls,
                   histVars>>
    /\ UNCHANGED otherVars

CreateCommitmentFinish(c) ==
    /\ pc[c] = "cc_finish_send"
    /\ SendWrite(c, [kind |-> "FinishCommitmentCreation", salt |-> op[c].salt,
                     from |-> c])
    /\ drv' = [drv EXCEPT ![c].stage = "finish"]
    /\ UNCHANGED <<engineVars, commitment_statuses, read_requests,
                   any_requests, loopVars, op, result, calls, histVars>>
    /\ UNCHANGED otherVars

\* The acknowledgement of FinishCommitmentCreation arrives, then the second
\* `let aborted = { ... }`.
CreateCommitmentFinished(c) ==
    /\ Replied(c, "create_commitment", "finish")
    /\ IF reply[c].state # "ok"
       THEN /\ Return(c, Received(reply[c]))
            /\ UNCHANGED commitment_statuses
       ELSE IF SeesAborted(op[c].salt)
       THEN /\ commitment_statuses' =
                    [commitment_statuses EXCEPT ![op[c].salt] = "absent"]
            /\ pc' = [pc EXCEPT ![c] = "rm_lock"]
            /\ drv' = [drv EXCEPT ![c].rm_salt = op[c].salt, ![c].stage = "call"]
            /\ UNCHANGED result
       ELSE /\ commitment_statuses' =
                    [commitment_statuses EXCEPT ![op[c].salt] = "Created"]
            /\ Return(c, Ok(Unit))
    /\ UNCHANGED <<engineVars, queueVars, loopVars, op, reply, calls, histVars>>
    /\ UNCHANGED otherVars

(***************************************************************************)
(* Plot::retain_commitments                                                *)
(***************************************************************************)
\* The orders in which the drained salts may come out of the HashMap.
Orders(S) ==
    {q \in [1..Cardinality(S) -> S] : \A i, j \in DOMAIN q : q[i] = q[j] => i = j}

RetainCommitmentsCalled(c, keep) ==
    /\ CanCall(c)
    /\ op' = [op EXCEPT ![c] = [name |-> "retain_commitments", keep |-> keep,
                                statuses |-> commitment_statuses]]
    /\ LET drained == {s \in Salts : commitment_statuses[s] # "absent" /\ s \notin keep}
       IN  /\ commitment_statuses' =
                  [s \in Salts |-> IF s \in drained THEN "absent"
                                   ELSE commitment_statuses[s]]
           /\ scn' = [d \in Clients |->
                         IF op[d].name = "create_commitment" /\ op[d].salt \in drained
                         THEN "spoiled" ELSE scn[d]]
           /\ IF drained = {}
              THEN Return(c, Ok(Unit))
              ELSE /\ \E order \in Orders(drained) :
                         drv' = [drv EXCEPT ![c].rm_salt = Head(order),
                                            ![c].todo = Tail(order)]
                   /\ pc' = [pc EXCEPT ![c] = "rm_lock"]
                   /\ UNCHANGED result
    /\ UNCHANGED <<engineVars, queueVars, loopVars, reply, mine, clobbered,
                   recreated, dirty>>

RetainCommitmentsCall(c, keep) ==
    /\ RetainCommitmentsCalled(c, keep)
    /\ UNCHANGED otherVars


(***************************************************************************)
(* Specifications of the plot.                                             *)
(***************************************************************************)
(***************************************************************************)
(* The record store: MemoryRecordStorage under                             *)
(* LimitedSizeRecordStorageWrapper. A record is a key and a value; keys    *)
(* and peer ids are words of KEY_BITS bits.                                *)
(***************************************************************************)
KEY_BITS == 3
StoreKeys == {1, 2, 4, 7}
Peers == {0, 3, 5}
Values == {1, 2}

\* max_items_limit at most, and operations on one wrapper at most.
MaxItems == 2
MaxOps == 4

RECURSIVE Xor(_, _, _)
Xor(a, b, bits) ==
    IF bits = 0 THEN 0
    ELSE ((a + b) % 2) + 2 * Xor(a \div 2, b \div 2, bits - 1)

\* The order of the heap: the XOR distance of a key from the peer.
Distance(key, peer) ==
    Xor(key, peer, KEY_BITS)

\* MemoryRecordStorage::default
NoRecords == <<>>

\* MemoryRecordStorage::put: HashMap::insert, which replaces.
MemoryPut(records, key, value) ==
    [k \in (DOMAIN records) \cup {key} |-> IF k = key THEN value ELSE records[k]]

\* MemoryRecordStorage::remove
MemoryRemove(records, key) ==
    [k \in (DOMAIN records) \ {key} |-> records[k]]

\* RecordBinaryHeap::new: a binary heap, here the number of entries per key.
HeapNew ==
    [k \in StoreKeys |-> 0]

RECURSIVE HeapCount(_, _)
HeapCount(h, keys) ==
    IF keys = {} THEN 0
    ELSE LET k == CHOOSE x \in keys : TRUE
         IN  h[k] + HeapCount(h, keys \ {k})

\* RecordBinaryHeap::size
HeapSize(h) ==
    HeapCount(h, StoreKeys)

\* The top of the heap: the entry farthest from the peer.
HeapTop(h, peer) ==
    CHOOSE k \in StoreKeys :
        /\ h[k] > 0
        /\ \A j \in StoreKeys : h[j] > 0 => Distance(j, peer) <= Distance(k, peer)

\* RecordBinaryHeap::insert: the key is pushed; over the limit, the top is
\* popped and returned.
HeapInsert(h, key, peer, limit) ==
    LET pushed == [h EXCEPT ![key] = @ + 1]
        top == HeapTop(pushed, peer)
    IN  IF HeapSize(pushed) > limit
        THEN [heap |-> [pushed EXCEPT ![top] = @ - 1], evicted |-> Some(top)]
        ELSE [heap |-> pushed, evicted |-> None]

\* RecordBinaryHeap::remove: the entries of the key are dropped.
HeapRemove(h, key) ==
    [h EXCEPT ![key] = 0]

\* The last operation on the wrapper, as history.
NoStoreOp ==
    [n |-> 0, distinct |-> TRUE, kind |-> "new", key |-> 0, evicted |-> None,
     before |-> {}]

(***************************************************************************)
(* ParityDbRecordStorage: records kept in a database as the SCALE bytes of *)
(* a ParityDbRecord. Bytes are 0..255 here; every length of the model is   *)
(* below 64, so a Compact<u32> length is the single byte 4 * length.       *)
(***************************************************************************)
\* What a decoder gives back: a value and the bytes left, or a failure.
Parsed(val, rest) == [ok |-> TRUE, val |-> val, rest |-> rest]
NotParsed == [ok |-> FALSE, val |-> <<>>, rest |-> <<>>]

\* Compact<u32>::encode of a length below 64.
EncodeCompact(n) == <<4 * n>>

\* Compact<u32>::decode: the single-byte mode; the other modes need more
\* bytes than any value of the model that starts with them has.
DecodeCompact(bytes) ==
    IF bytes = <<>> THEN NotParsed
    ELSE IF bytes[1] % 4 = 0 THEN Parsed(bytes[1] \div 4, Tail(bytes))
    ELSE NotParsed

\* Vec<u8>::encode
EncodeBytes(b) == EncodeCompact(Len(b)) \o b

\* Vec<u8>::decode
DecodeBytes(bytes) ==
    LET len == DecodeCompact(bytes)
    IN  IF ~len.ok THEN NotParsed
        ELSE IF Len(len.rest) < len.val THEN NotParsed
        ELSE Parsed(SubSeq(len.rest, 1, len.val),
                    SubSeq(len.rest, len.val + 1, Len(len.rest)))

\* The elements of a BTreeSet<Vec<u8>> in its order.
RECURSIVE SortedElements(_)
SortedElements(set) ==
    IF set = {} THEN <<>>
    ELSE LET e == CHOOSE x \in set : \A y \in set : BytesLeq(x, y)
         IN  <<e>> \o SortedElements(set \ {e})

RECURSIVE EncodeElements(_)
EncodeElements(elements) ==
    IF elements = <<>> THEN <<>>
    ELSE EncodeBytes(Head(elements)) \o EncodeElements(Tail(elements))

\* BTreeSet<Vec<u8>>::encode
EncodeSet(set) ==
    EncodeCompact(Cardinality(set)) \o EncodeElements(SortedElements(set))

RECURSIVE DecodeElements(_, _)
DecodeElements(bytes, n) ==
    IF n = 0 THEN Parsed({}, bytes)
    ELSE LET e == DecodeBytes(bytes)
         IN  IF ~e.ok THEN NotParsed
             ELSE LET more == DecodeElements(e.rest, n - 1)
                  IN  IF ~more.ok THEN NotParsed
                      ELSE Parsed({e.val} \cup more.val, more.rest)

\* BTreeSet<Vec<u8>>::decode(&mut value.as_slice()): bytes after the set are
\* left unread.
DecodeSet(bytes) ==
    LET len == DecodeCompact(bytes)
    IN  IF ~len.ok THEN NotParsed ELSE DecodeElements(len.rest, len.val)

\* PeerId::to_bytes and PeerId::from_bytes
PeerToBytes(peer) == <<peer>>
PeerFromBytes(bytes) == bytes[1]

\* impl From<Record> for ParityDbRecord
ToParityDbRecord(rec) ==
    [key |-> rec.key, value |-> rec.value,
     publisher |-> IF rec.publisher = None THEN None
                   ELSE Some(PeerToBytes(rec.publisher[1]))]

\* impl From<ParityDbRecord> for Record
FromParityDbRecord(rec) ==
    [key |-> rec.key, value |-> rec.value,
     publisher |-> IF rec.publisher = None THEN None
                   ELSE Some(PeerFromBytes(rec.publisher[1])),
     expires |-> None]

\* ParityDbRecord::encode (derived): the fields in their order.
EncodeRecord(rec) ==
    EncodeBytes(rec.key) \o EncodeBytes(rec.value)
        \o (IF rec.publisher = None THEN <<0>>
            ELSE <<1>> \o EncodeBytes(rec.publisher[1]))

\* Option<Vec<u8>>::decode
DecodeOption(bytes) ==
    IF bytes = <<>> THEN NotParsed
    ELSE IF bytes[1] = 0 THEN Parsed(None, Tail(bytes))
    ELSE IF bytes[1] = 1
         THEN LET b == DecodeBytes(Tail(bytes))
              IN  IF b.ok THEN Parsed(Some(b.val), b.rest) ELSE NotParsed
    ELSE NotParsed

\* ParityDbRecordStorage::convert_to_record
convert_to_record(data) ==
    LET key == DecodeBytes(data)
        value == DecodeBytes(key.rest)
        publisher == DecodeOption(value.rest)
    IN  IF ~key.ok THEN NotParsed
        ELSE IF ~value.ok THEN NotParsed
        ELSE IF ~publisher.ok THEN NotParsed
        ELSE Parsed(FromParityDbRecord([key |-> key.val, value |-> value.val,
                                        publisher |-> publisher.val]),
                    publisher.rest)

\* A multihash as bytes: its code, the length of its digest, its digest.
SECTOR_CODE == 2
PIECE_CODE == 1
MultihashCodeOf(key) == key[1]

\* ParityDbRecordStorage::get
ParityGet(db, key) ==
    IF key \notin DOMAIN db THEN None
    ELSE LET rec == convert_to_record(db[key])
         IN  IF rec.ok THEN Some(rec.val) ELSE None

\* A faulty variant: the old set is forgotten.
KeepNewSet(set1, set2) ==
    set2

\* `set1.union(&set2).collect::<BTreeSet<_>>()`
MergedSet(set1, set2) ==
    set1 \cup set2

\* A faulty variant: a new value that is no set leaves the stored set in place.
MergeOrKeepOld(new_record, old_record) ==
    IF old_record = None THEN new_record
    ELSE IF MultihashCodeOf(old_record[1].key) # SECTOR_CODE THEN new_record
    ELSE LET set1 == DecodeSet(old_record[1].value)
             set2 == DecodeSet(new_record.value)
         IN  IF ~set1.ok THEN new_record
             ELSE IF ~set2.ok THEN [new_record EXCEPT !.value = old_record[1].value]
             ELSE [new_record EXCEPT
                      !.value = EncodeSet(MergedSet(set1.val, set2.val))]

\* merge_records_in_case_of_sector_multihash
merge_records_in_case_of_sector_multihash(new_record, old_record) ==
    IF old_record = None THEN new_record
    ELSE IF MultihashCodeOf(old_record[1].key) # SECTOR_CODE THEN new_record
    ELSE LET set1 == DecodeSet(old_record[1].value)
             set2 == DecodeSet(new_record.value)
         IN  IF ~set1.ok THEN new_record
             ELSE IF ~set2.ok THEN new_record
             ELSE [new_record EXCEPT
                      !.value = EncodeSet(MergedSet(set1.val, set2.val))]

\* ParityDbRecordStorage::save_data
save_data(db, key, data) ==
    IF data = None
    THEN [k \in (DOMAIN db) \ {key} |-> db[k]]
    ELSE [k \in (DOMAIN db) \cup {key} |-> IF k = key THEN data[1] ELSE db[k]]

\* ParityDbRecordStorage::put: the database after it.
ParityPutDb(db, record) ==
    LET old_record == ParityGet(db, record.key)
        actual_record == merge_records_in_case_of_sector_multihash(record, old_record)
        db_rec == ToParityDbRecord(actual_record)
    IN  save_data(db, record.key, Some(EncodeRecord(db_rec)))

\* The keys, values and records that are put.
SectorKey == <<SECTOR_CODE, 1, 9>>
PieceKey == <<PIECE_CODE, 1, 9>>
ParityKeys == {SectorKey, PieceKey}
Elements == {<<10>>, <<11>>, <<11, 12>>}
\* A set encoded out of order with an element twice, and bytes that are no set.
UnsortedSetBytes == <<12, 8, 11, 12, 4, 10, 4, 10>>
NoSetBytes == <<1>>
ParityValues == {EncodeSet(set) : set \in SUBSET Elements} \cup {UnsortedSetBytes, NoSetBytes}
Publishers == {None, Some(6)}
NoHist == [n |-> 0, clean |-> TRUE, sets |-> {}, last |-> {}, value |-> <<>>,
           publisher |-> None, fallback |-> FALSE]
ParityIdle ==
    /\ p_db = <<>>
    /\ p_hist = [key \in ParityKeys |-> NoHist]

FindIdle ==
    /\ f_db = EmptyDb
    /\ f_target = ToBeBytes(0)
    /\ f_range = 0
    /\ f_solutions = <<>>
    /\ f_out = None
    /\ f_done = FALSE

StoreIdle ==
    /\ inner = NoRecords
    /\ heap = HeapNew
    /\ local_peer = 0
    /\ max_items = 1
    /\ s_hist = {}
    /\ s_last = NoStoreOp

Loop ==
    \/ WaitForRequests
    \/ ReadsExhausted
    \/ NoWriteRequest
    \/ \E c \in Clients : Notify(c)

PieceIO ==
    \/ ServeReadEncoding
    \/ ServeWriteEncodings
    \/ \E c \in Clients, first_index \in FirstIndexes, n \in Lengths :
           WriteManyCall(c, first_index, n)
    \/ \E c \in Clients : WriteManyReturn(c)
    \/ \E c \in Clients, index \in Indexes : ReadCall(c, index)
    \/ \E c \in Clients : ReadReturn(c)

\* The task that plots: it alone writes pieces where commitments are made,
\* one piece or more than a batch of them, from index 0.
Plotter == CHOOSE c \in Clients : \A d \in Clients : c <= d
PlotLengths == {1, BATCH_SIZE + 1}

PlotWrites ==
    \/ ServeWriteEncodings
    \/ \E n \in PlotLengths : WriteManyCall(Plotter, 0, n)
    \/ WriteManyReturn(Plotter)

\* The target of the find_by_range calls: the tag of the piece of index 0.
Targets(salt) == {create_tag(PieceOf(Plotter, 0), salt)}

CommitmentCalls ==
    \/ ServeReadEncodings
    \/ ServeFindByRange
    \/ ServeWriteTags
    \/ ServeFinishCommitmentCreation
    \/ ServeRemoveCommitment
    \/ \E c \in Clients, salt \in SingleSalt : \E target \in Targets(salt) :
           FindByRangeCall(c, target, 0, salt)
    \/ \E c \in Clients : FindByRangeReturn(c)
    \/ \E c \in Clients, salt \in SingleSalt : RemoveCommitmentCall(c, salt)
    \/ \E c \in Clients : RemoveLock(c)
    \/ \E c \in Clients : RemoveSend(c)
    \/ \E c \in Clients : RemoveReturn(c)
    \/ \E c \in Clients, salt \in SingleSalt : CreateCommitmentCall(c, salt)
    \/ \E c \in Clients : CreateCommitmentLoad(c)
    \/ \E c \in Clients : CreateCommitmentCheck(c)
    \/ \E c \in Clients : CreateCommitmentRead(c)
    \/ \E c \in Clients : CreateCommitmentWriteTags(c)
    \/ \E c \in Clients : CreateCommitmentNextBatch(c)
    \/ \E c \in Clients : CreateCommitmentAbortedAfterLoop(c)
    \/ \E c \in Clients : CreateCommitmentFinish(c)
    \/ \E c \in Clients : CreateCommitmentFinished(c)
    \/ \E c \in Clients, keep \in SUBSET SingleSalt : RetainCommitmentsCall(c, keep)

\* Pieces are written and read; no commitment is made.
InitIO == InitPlot /\ FindIdle /\ StoreIdle /\ ParityIdle
NextIO == Loop \/ PieceIO
SpecIO == InitIO /\ [][NextIO]_vars

\* All public calls of the plot.
Init == InitPlot /\ FindIdle /\ StoreIdle /\ ParityIdle
Next == Loop \/ PlotWrites \/ CommitmentCalls
Spec == Init /\ [][Next]_vars


(***************************************************************************)
(* C1. Write/read round trip: when a client has awaited the                *)
(* acknowledgement of its write_many(pieces, f) and then reads index f+k,  *)
(* with no later write served over that index, read returns pieces[k].     *)
(***************************************************************************)
ReadsOwnWrite(c) ==
    /\ pc[c] = "idle"
    /\ op[c].name = "read"
    /\ mine[c].served
    /\ op[c].index >= mine[c].first_index
    /\ op[c].index < mine[c].first_index + Len(mine[c].encodings)
    /\ op[c].index \notin clobbered[c]

C1_RoundTrip ==
    \A c \in Clients :
        ReadsOwnWrite(c) =>
            /\ result[c].state = "ok"
            /\ result[c].val = mine[c].encodings[op[c].index - mine[c].first_index + 1]

\* A client read the second piece of its write while another client's later
\* write had replaced a different index.
C1_Witness ==
    \E c \in Clients :
        /\ ReadsOwnWrite(c)
        /\ op[c].index = mine[c].first_index + 1
        /\ clobbered[c] # {}


(***************************************************************************)
(* C2. For any create_commitment(salt) call that returns success, built by *)
(* the call or returned at once for a salt already Created, every piece    *)
(* index below the piece count at the time of the call is found by         *)
(* find_by_range(tag(piece[i], salt), 0, salt), which returns (tag_i, i).  *)
(* Stated of a salt that is still Created and of a plot that no write has  *)
(* changed since the call.                                                 *)
(***************************************************************************)
Committed(c) ==
    /\ pc[c] = "idle"
    /\ op[c].name = "create_commitment"
    /\ result[c].state = "ok"
    /\ ~dirty[c]
    /\ commitment_statuses[op[c].salt] = "Created"

\* What find_by_range(tag(piece[i], salt), 0, salt) would return now.
FindsPiece(salt, i) ==
    LET piece == ReadEncoding(plot_file, i)
    IN  /\ piece.state = "ok"
        /\ FindByRange(commitments[salt].tags, create_tag(piece.val, salt), 0)
               = Some(<<create_tag(piece.val, salt), i>>)

C2_EveryPieceFound ==
    \A c \in Clients :
        Committed(c) =>
            \A i \in 0..(op[c].count_at_call - 1) : FindsPiece(op[c].salt, i)


(***************************************************************************)
(* C3. Abort of a build in flight: when another task calls                 *)
(* remove_commitment(s) while one create_commitment(s) run is InProgress,  *)
(* the status stays Aborted until the driver tests it, the driver then     *)
(* drops the entry and removes the index, create_commitment(s) returns the *)
(* "Commitment creation was aborted" error, and once it has returned the   *)
(* salt has no index on disk and no entry in the status map.               *)
(* scn[c] = "aborted" selects the runs of the claim: one driver, marked    *)
(* Aborted by remove_commitment, and no third task touching the salt.      *)
(***************************************************************************)
Removing(c) ==
    \/ pc[c] \in {"rm_lock", "rm_send"}
    \/ drv[c].stage = "rm"

AbortedBuild(c) ==
    /\ op[c].name = "create_commitment"
    /\ scn[c] = "aborted"

C3_AbortOfBuild ==
    \A c \in Clients :
        AbortedBuild(c) =>
            LET salt == op[c].salt
            IN  /\ (pc[c] # "idle" /\ ~Removing(c)) =>
                       commitment_statuses[salt] = "Aborted"
                /\ Removing(c) => commitment_statuses[salt] = "absent"
                /\ pc[c] = "idle" =>
                       /\ result[c].state = "err"
                       /\ result[c].val = ABORTED
                       /\ ~OnDisk(salt)
                       /\ commitment_statuses[salt] = "absent"

\* An aborted build has returned, in a plot that holds pieces.
C3_Witness ==
    \E c \in Clients :
        /\ AbortedBuild(c)
        /\ pc[c] = "idle"
        /\ result[c].state = "err"
        /\ piece_count > 0

(***************************************************************************)
(* C4 as stated. After any remove_commitment(salt) call returns success,   *)
(* whatever the status of the salt was at the call, the commitments        *)
(* directory holds no index of that salt (as long as no later request has  *)
(* opened the index again).                                                *)
(***************************************************************************)
Removed(c) ==
    /\ pc[c] = "idle"
    /\ op[c].name = "remove_commitment"
    /\ result[c].state = "ok"
    /\ ~recreated[c]

MaxTags == 3

\* The tags that are stored: both ends of the word, and the tags around the
\* window of target 5 and range 32.
StoredTags == {0, 21, 22, WORD - 16, WORD - 11, WORD - 1}
FindTargets == 0..(WORD - 1)
FindRanges == {0, 1, 32, 41, 42, WORD - 1}

\* WriteRequests::WriteTags with the tag of the next piece, a tag that no
\* piece before it had.
FindWriteTags(tag) ==
    /\ ~f_done
    /\ ToBeBytes(tag) \notin DOMAIN f_db
    /\ Cardinality(DOMAIN f_db) < MaxTags
    /\ f_db' = WriteTags(f_db, Cardinality(DOMAIN f_db), <<ToBeBytes(tag)>>)
    /\ UNCHANGED <<f_target, f_range, f_solutions, f_out, f_done>>
    /\ UNCHANGED <<plotVars, storeVars, parityVars, shutdownVars, sideVars>>

\* ReadRequests::FindByRange
FindServe(target, range) ==
    /\ ~f_done
    /\ f_target' = ToBeBytes(target)
    /\ f_range' = range
    /\ f_solutions' = Solutions(f_db, ToBeBytes(target), range)
    /\ f_out' = FindByRange(f_db, ToBeBytes(target), range)
    /\ f_done' = TRUE
    /\ UNCHANGED f_db
    /\ UNCHANGED <<plotVars, storeVars, parityVars, shutdownVars, sideVars>>

InitFind == InitPlot /\ FindIdle /\ StoreIdle /\ ParityIdle
NextFind ==
    \/ \E tag \in StoredTags : FindWriteTags(tag)
    \/ \E target \in FindTargets, range \in FindRanges : FindServe(target, range)
SpecFind == InitFind /\ [][NextFind]_vars

\* The wrapping distance of two words: the shorter way round.
WrappingDistance(u, t) ==
    Min((u + WORD - t) % WORD, (t + WORD - u) % WORD)

\* The stored tags within wrapping distance range / 2 of the target.
InWindow(db, target, range) ==
    {key \in DOMAIN db :
        WrappingDistance(FromBeBytes(key), FromBeBytes(target)) <= range \div 2}

\* The interval [target - range/2, target + range/2] crosses the end of the word.
Wraps(target, range) ==
    \/ FromBeBytes(target) < range \div 2
    \/ FromBeBytes(target) > WORD - 1 - range \div 2

(***************************************************************************)
(* C5. Soundness of find_by_range: if it returns Some((u, index)), then u  *)
(* is a stored tag within wrapping distance floor(range / 2) of the        *)
(* target, also when the interval crosses the end of the word.             *)
(***************************************************************************)
C5_Sound ==
    (f_done /\ f_out # None) =>
        /\ f_out[1][1] \in InWindow(f_db, f_target, f_range)
        /\ f_out[1][2] = FromLeBytes(f_db[f_out[1][1]])

\* A wrapping window whose answer is a tag of the high end of the word,
\* with a stored tag left outside.
C5_Witness ==
    /\ f_done
    /\ f_out # None
    /\ Wraps(f_target, f_range)
    /\ FromBeBytes(f_out[1][1]) > FromBeBytes(f_target) + f_range \div 2
    /\ InWindow(f_db, f_target, f_range) # DOMAIN f_db

(***************************************************************************)
(* C6. Completeness of find_by_range: it returns None exactly when no      *)
(* stored tag is inside the window, wrapping or not.                       *)
(***************************************************************************)
C6_Complete ==
    f_done => (f_out = None <=> InWindow(f_db, f_target, f_range) = {})

\* A wrapping window whose only stored tag is the lower end of the window.
C6_Witness ==
    /\ f_done
    /\ f_out # None
    /\ Wraps(f_target, f_range)
    /\ Cardinality(DOMAIN f_db) > 1
    /\ InWindow(f_db, f_target, f_range) =
           {ToBeBytes((FromBeBytes(f_target) + WORD - f_range \div 2) % WORD)}


(***************************************************************************)
(* C7 as stated. With a tags database whose only tag is WORD - 16 (the     *)
(* scaled 0xFFFF_FFFF_FFFF_FFF0), find_by_range(target = 5, range = 32)    *)
(* returns that tag.                                                       *)
(***************************************************************************)
FarTag == ToBeBytes(WORD - 16)

WrapScenario ==
    /\ f_done
    /\ DOMAIN f_db = {FarTag}
    /\ f_target = ToBeBytes(5)

ReturnsFarTag ==
    /\ f_out # None
    /\ f_out[1][1] = FarTag

C7_Range32 ==
    (WrapScenario /\ f_range = 32) => ReturnsFarTag

(***************************************************************************)
(* C7, amended. The tag WORD - 16 is at wrapping distance 21 of target 5:  *)
(* with only that tag stored, find_by_range(target = 5, range) returns it  *)
(* exactly when range / 2 >= 21, so for range = 42 (0x2A) and more, and it *)
(* returns None for range = 32 (0x20).                                     *)
(***************************************************************************)
C7_Range42 ==
    WrapScenario =>
        /\ ReturnsFarTag <=> f_range \div 2 >= 21
        /\ f_range = 32 => f_out = None

\* The scenario with the smallest range that reaches the tag.
C7_Witness ==
    /\ WrapScenario
    /\ f_range = 42
    /\ ReturnsFarTag

(***************************************************************************)
(* C8. find_by_range returns the first match in ascending order of the     *)
(* tags: the solutions of the scan are the stored tags of the window, each *)
(* once, strictly ascending as unsigned big-endian numbers, in the         *)
(* wrapping and in the non-wrapping case, so what is returned is the pair  *)
(* of the smallest tag value in the window.                                *)
(***************************************************************************)
StrictlyAscending(solutions) ==
    \A i, j \in DOMAIN solutions :
        i < j => FromBeBytes(solutions[i][1]) < FromBeBytes(solutions[j][1])

C8_FirstInAscendingOrder ==
    f_done =>
        /\ StrictlyAscending(f_solutions)
        /\ {f_solutions[i][1] : i \in DOMAIN f_solutions}
               = InWindow(f_db, f_target, f_range)
        /\ f_out # None =>
               /\ f_out[1][1] \in InWindow(f_db, f_target, f_range)
               /\ \A key \in InWindow(f_db, f_target, f_range) :
                      FromBeBytes(f_out[1][1]) <= FromBeBytes(key)

\* A wrapping window with matches at both ends of the word.
C8_Witness ==
    /\ f_done
    /\ Wraps(f_target, f_range)
    /\ Len(f_solutions) >= 2
    /\ FromBeBytes(f_solutions[1][1]) <= FromBeBytes(f_target)
    /\ FromBeBytes(f_solutions[Len(f_solutions)][1]) > FromBeBytes(f_target) + f_range \div 2
    /\ f_out = Some(f_solutions[1])


(***************************************************************************)
(* LimitedSizeRecordStorageWrapper over an empty MemoryRecordStorage.      *)
(***************************************************************************)
\* A faulty variant: the evicted record stays in the inner store.
EvictNothing(records, evicted) ==
    records

\* `if let Some(key) = evicted_key { self.inner.remove(&key); }`
Evict(records, evicted) ==
    IF evicted = None THEN records ELSE MemoryRemove(records, evicted[1])

\* LimitedSizeRecordStorageWrapper::put
StorePut(key, value) ==
    /\ s_last.n < MaxOps
    /\ LET stored == MemoryPut(inner, key, value)
           inserted == HeapInsert(heap, key, local_peer, max_items)
       IN  /\ heap' = inserted.heap
           /\ inner' = Evict(stored, inserted.evicted)
           /\ s_last' = [n |-> s_last.n + 1,
                         distinct |-> s_last.distinct /\ key \notin s_hist,
                         kind |-> "put", key |-> key,
                         evicted |-> inserted.evicted,
                         before |-> DOMAIN inner]
    /\ s_hist' = s_hist \cup {key}
    /\ UNCHANGED <<local_peer, max_items>>
    /\ UNCHANGED <<plotVars, findVars, parityVars, shutdownVars, sideVars>>

\* LimitedSizeRecordStorageWrapper::remove
StoreRemove(key) ==
    /\ s_last.n < MaxOps
    /\ inner' = MemoryRemove(inner, key)
    /\ heap' = HeapRemove(heap, key)
    /\ s_last' = [n |-> s_last.n + 1, distinct |-> FALSE, kind |-> "remove",
                  key |-> key, evicted |-> None, before |-> DOMAIN inner]
    /\ UNCHANGED <<local_peer, max_items, s_hist>>
    /\ UNCHANGED <<plotVars, findVars, parityVars, shutdownVars, sideVars>>

\* LimitedSizeRecordStorageWrapper::new(MemoryRecordStorage::default(), ..)
InitStore ==
    /\ InitPlot
    /\ FindIdle
    /\ ParityIdle
    /\ inner = NoRecords
    /\ heap = HeapNew
    /\ local_peer \in Peers
    /\ max_items \in 1..MaxItems
    /\ s_hist = {}
    /\ s_last = NoStoreOp

NextStore ==
    \/ \E key \in StoreKeys, value \in Values : StorePut(key, value)
    \/ \E key \in StoreKeys : StoreRemove(key)
SpecStore == InitStore /\ [][NextStore]_vars

(***************************************************************************)
(* C9. After every operation of any sequence of put and remove calls on a  *)
(* wrapper with bound N, repeated puts of a stored key included, the size  *)
(* of the heap is the number of keys of inner.records() and is at most N.  *)
(***************************************************************************)
C9_HeapSizeIsRecordCount ==
    s_last.n > 0 =>
        /\ HeapSize(heap) = Cardinality(DOMAIN inner)
        /\ HeapSize(heap) <= max_items

(***************************************************************************)
(* C10. Eviction picks the farthest key: after any sequence of puts of     *)
(* distinct keys on a wrapper with bound N, the inner store holds exactly  *)
(* the min(N, count) keys closest to the local peer by XOR distance, and a *)
(* key evicted by a put was the farthest of the stored keys and the new    *)
(* one at that moment.                                                     *)
(***************************************************************************)
\* The n keys of a set that are closest to the peer.
Closest(keys, n) ==
    {k \in keys :
        Cardinality({j \in keys : Distance(j, local_peer) < Distance(k, local_peer)}) < n}

Farthest(keys) ==
    CHOOSE k \in keys : \A j \in keys : Distance(j, local_peer) <= Distance(k, local_peer)

C10_EvictsFarthest ==
    (s_last.n > 0 /\ s_last.distinct) =>
        /\ DOMAIN inner = Closest(s_hist, Min(max_items, Cardinality(s_hist)))
        /\ s_last.evicted # None =>
               s_last.evicted[1] = Farthest(s_last.before \cup {s_last.key})

\* Bound 2 and three puts, the second key being the farthest: it is evicted
\* by the third put, and the order of the distances is not that of the keys.
C10_Witness ==
    /\ s_last.n = 3
    /\ s_last.distinct
    /\ max_items = 2
    /\ s_last.evicted # None
    /\ s_last.evicted[1] # s_last.key
    /\ s_last.evicted[1] < s_last.key
    /\ DOMAIN inner = s_hist \ {s_last.evicted[1]}


(***************************************************************************)
(* ParityDbRecordStorage over a new database.                              *)
(***************************************************************************)
\* Puts and removes on one storage at most.
MaxParityOps == 3

ParityOps ==
    p_hist[SectorKey].n + p_hist[PieceKey].n

\* History: what a put is about to find.
\* No set is stored under the key: nothing is, or a value that is no set.
NoSetStored(key) ==
    \/ ParityGet(p_db, key) = None
    \/ ~DecodeSet(ParityGet(p_db, key)[1].value).ok

Fallback(key, value) ==
    \/ MultihashCodeOf(key) # SECTOR_CODE
    \/ NoSetStored(key)
    \/ ~DecodeSet(value).ok

\* ParityDbRecordStorage::put
ParityPut(key, value, publisher) ==
    /\ ParityOps < MaxParityOps
    /\ p_db' = ParityPutDb(p_db, [key |-> key, value |-> value,
                                  publisher |-> publisher, expires |-> publisher])
    /\ LET set == DecodeSet(value)
       IN  p_hist' = [p_hist EXCEPT ![key] =
               [n |-> @.n + 1,
                clean |-> @.clean /\ set.ok,
                sets |-> IF set.ok THEN @.sets \cup set.val ELSE @.sets,
                last |-> IF set.ok THEN set.val ELSE {},
                value |-> value,
                publisher |-> publisher,
                fallback |-> Fallback(key, value)]]
    /\ UNCHANGED <<plotVars, findVars, storeVars, shutdownVars, sideVars>>

\* ParityDbRecordStorage::remove
ParityRemove(key) ==
    /\ p_db' = save_data(p_db, key, None)
    /\ p_hist' = [p_hist EXCEPT ![key] = NoHist]
    /\ UNCHANGED <<plotVars, findVars, storeVars, shutdownVars, sideVars>>

InitParity == InitPlot /\ FindIdle /\ StoreIdle /\ ParityIdle
NextParity ==
    \/ \E key \in ParityKeys, value \in ParityValues, publisher \in Publishers :
           ParityPut(key, value, publisher)
    \/ \E key \in ParityKeys : ParityRemove(key)
SpecParity == InitParity /\ [][NextParity]_vars

(***************************************************************************)
(* C11. Sector merge accumulates: after any sequence of puts under one     *)
(* Sector-coded key whose values all decode as byte-string sets, with no   *)
(* remove in between, the stored value decodes to the union of the sets    *)
(* put, whatever the order of the puts.                                    *)
(***************************************************************************)
C11_SectorMergeAccumulates ==
    (p_hist[SectorKey].n > 0 /\ p_hist[SectorKey].clean) =>
        LET stored == ParityGet(p_db, SectorKey)
        IN  /\ stored # None
            /\ DecodeSet(stored[1].value).ok
            /\ DecodeSet(stored[1].value).val = p_hist[SectorKey].sets

\* Two overlapping sets were put, neither holding the other: {a, b}, {b, c}.
C11_Witness ==
    /\ p_hist[SectorKey].n = 2
    /\ p_hist[SectorKey].clean
    /\ p_hist[SectorKey].sets = Elements
    /\ Cardinality(p_hist[SectorKey].last) = 2
    /\ DecodeSet(ParityGet(p_db, SectorKey)[1].value).val = Elements


(***************************************************************************)
(* A read flood: the plotter writes, the other tasks read again and again. *)
(* The background task and every client task are scheduled fairly.         *)
(***************************************************************************)
\* Plot::read, called once more by a task that reads without end.
ReadAgain(c, index) ==
    /\ pc[c] = "idle"
    /\ c # Plotter
    /\ op' = [op EXCEPT ![c] = [name |-> "read", index |-> index]]
    /\ SendRead(c, [kind |-> "ReadEncoding", index |-> index, from |-> c])
    /\ UNCHANGED <<engineVars, commitment_statuses, write_requests,
                   any_requests, loopVars, drv, result, calls, histVars>>
    /\ UNCHANGED otherVars

\* One step of the background task.
Engine ==
    \/ WaitForRequests
    \/ ServeReadEncoding
    \/ ReadsExhausted
    \/ ServeWriteEncodings
    \/ NoWriteRequest

FloodClients ==
    \/ \E c \in Clients : Notify(c)
    \/ \E n \in PlotLengths : WriteManyCall(Plotter, 0, n)
    \/ WriteManyReturn(Plotter)
    \/ \E c \in Clients : ReadAgain(c, 0)
    \/ \E c \in Clients : ReadReturn(c)

NextFlood == Engine \/ FloodClients
FairFlood ==
    /\ WF_vars(Engine)
    /\ \A c \in Clients : WF_vars(Notify(c))
    /\ \A c \in Clients : WF_vars(ReadReturn(c))
    /\ WF_vars(WriteManyReturn(Plotter))
SpecFlood == InitIO /\ [][NextFlood]_vars /\ FairFlood

(***************************************************************************)
(* C12. Writer progress under a read flood: while read requests keep being *)
(* enqueued faster than they are served, a pending write request is still  *)
(* served by the loop of the background task in the end.                   *)
(***************************************************************************)
C12_WriterProgress ==
    (write_requests # <<>>) ~> (write_requests = <<>>)


(***************************************************************************)
(* C13. is_empty() is true if and only if no write_many has extended the   *)
(* plot: on a plot opened on an empty file it is true at first, it changes *)
(* only when a WriteEncodings request is served, which makes it false, and *)
(* it never becomes true again; a write_many with an empty list of pieces  *)
(* sends no request and leaves it as it is.                                *)
(***************************************************************************)
WriteEncodingsServed ==
    /\ write_requests # <<>>
    /\ Head(write_requests).kind = "WriteEncodings"
    /\ write_requests' = Tail(write_requests)

EmptyWriteManyCalled(c) ==
    /\ op'[c] # op[c]
    /\ op'[c].name = "write_many"
    /\ op'[c].encodings = <<>>

C13_IsEmptyUntilWritten ==
    /\ is_empty
    /\ [][/\ WriteEncodingsServed => ~is_empty'
          /\ is_empty' # is_empty => (is_empty /\ WriteEncodingsServed)
          /\ \A c \in Clients :
                 EmptyWriteManyCalled(c) =>
                     /\ is_empty' = is_empty
                     /\ write_requests' = write_requests]_vars

\* One task has written nothing with an empty list while the plot was
\* empty; then the write of another task was served.
C13_Witness ==
    \E c, d \in Clients :
        /\ op[c].name = "write_many"
        /\ op[c].encodings = <<>>
        /\ pc[c] = "idle"
        /\ mine[d].served
        /\ ~is_empty


(***************************************************************************)
(* C14. The status map covers the disk: in every reachable state every     *)
(* salt that has a tags database on disk has an entry in                   *)
(* commitment_statuses.                                                    *)
(***************************************************************************)
C14_StatusCoversDisk ==
    \A s \in Salts : OnDisk(s) => commitment_statuses[s] # "absent"


(***************************************************************************)
(* C15. Created means complete: for each salt whose status is Created, its *)
(* tags database holds exactly piece_count_at_finish entries, one for each *)
(* piece index of the prefix that the finishing create_commitment run      *)
(* snapshotted. Stated of the state in which a run sets the status of its  *)
(* salt to Created, where drv[c].piece_count is the snapshot of that run.  *)
(***************************************************************************)
\* The piece indexes that are values of the tags database.
IndexesOf(db) == {FromLeBytes(db[k]) : k \in DOMAIN db}

Complete(db, count) ==
    /\ Cardinality(DOMAIN db) = count
    /\ IndexesOf(db) = 0..(count - 1)

SetsCreated(c) ==
    /\ Replied(c, "create_commitment", "finish")
    /\ pc'[c] = "idle"
    /\ commitment_statuses'[op[c].salt] = "Created"

C15_CreatedMeansComplete ==
    [][\A c \in Clients :
           SetsCreated(c) =>
               Complete(commitments'[op[c].salt].tags, drv[c].piece_count)]_vars


(***************************************************************************)
(* C16. Aborted is one-way: the status of a salt becomes Aborted only from *)
(* InProgress, and once Aborted no operation changes it to another status; *)
(* it stays until a create_commitment driver of that salt observes it and  *)
(* removes the entry.                                                      *)
(***************************************************************************)
\* A driver of the salt takes one of its two `let aborted = { ... }` steps
\* and goes on to remove the commitment.
DriverObservesAborted(c, salt) ==
    /\ Running(c, salt)
    /\ pc[c] = "cc_post" \/ Replied(c, "create_commitment", "finish")
    /\ pc'[c] = "rm_lock"

C16_AbortedOneWay ==
    [][\A s \in Salts :
           /\ (commitment_statuses[s] # "Aborted" /\ commitment_statuses'[s] = "Aborted")
                  => commitment_statuses[s] = "InProgress"
           /\ (commitment_statuses[s] = "Aborted" /\ commitment_statuses'[s] # "Aborted")
                  => /\ commitment_statuses'[s] = "absent"
                     /\ \E c \in Clients : DriverObservesAborted(c, s)]_vars


(***************************************************************************)
(* Shutdown: Drop for Inner, run by the task that drops the last handle of *)
(* the plot, and the end of the background task.                           *)
(***************************************************************************)
\* `if any_requests_receiver.next().await.is_none() { break; }`
WakeChannelClosed ==
    /\ epc = "wait"
    /\ any_requests = 0
    /\ Closed("any")
    /\ epc' = "sync"
    /\ UNCHANGED <<engineVars, commitment_statuses, queueVars, did_nothing,
                   clientVars, reply, histVars>>
    /\ UNCHANGED otherVars

\* read_requests_receiver.try_next() is Ok(None): `break 'outer`.
ReadChannelClosed ==
    /\ epc = "reads"
    /\ read_requests = <<>>
    /\ Closed("read")
    /\ epc' = "sync"
    /\ UNCHANGED <<engineVars, commitment_statuses, queueVars, did_nothing,
                   clientVars, reply, histVars>>
    /\ UNCHANGED otherVars

\* write_requests_receiver.try_next() is Ok(None): `break 'outer`.
WriteChannelClosed ==
    /\ epc = "write"
    /\ write_requests = <<>>
    /\ Closed("write")
    /\ epc' = "sync"
    /\ did_nothing' = FALSE
    /\ UNCHANGED <<engineVars, commitment_statuses, queueVars, clientVars,
                   reply, histVars>>
    /\ UNCHANGED otherVars

\* `plot_file.sync_all().await` after the loop; the task then returns.
SyncAll ==
    /\ epc = "sync"
    /\ synced' = TRUE
    /\ epc' = "done"
    /\ UNCHANGED <<engineVars, commitment_statuses, queueVars, did_nothing,
                   clientVars, reply, histVars>>
    /\ UNCHANGED <<findVars, storeVars, parityVars, sideVars, senders, plot_db>>

\* The background task has returned.
Terminated == epc = "done"

\* The senders that Drop for Inner takes before the one of `channel`.
TakenBefore(channel) ==
    IF channel = "any" THEN {}
    ELSE IF channel = "read" THEN {"any"} ELSE {"any", "read"}

\* What a public call returns to nobody: its future was dropped.
Cancelled(c) ==
    [state |-> "cancelled",
     val |-> IF pc[c] \in {"notify", "await"} /\ reply[c].state = "pending"
             THEN "unserved" ELSE "none"]

\* Drop for Inner: `self.<channel>_requests_sender.take()`. Inner is dropped
\* with the last handle of the plot, so every call that has not returned was
\* cancelled where it stood: at an `.await`, never between the send of a
\* request and the try_send(()) that follows it in the same poll.
TakeSender(channel) ==
    /\ channel \in senders
    /\ \A c \in Clients : pc[c] # "notify"
    /\ TakenBefore(channel) \cap senders = {}
    /\ senders' = senders \ {channel}
    /\ pc' = [c \in Clients |-> "gone"]
    /\ result' = [c \in Clients |->
                     IF pc[c] \in {"idle", "gone"} THEN result[c] ELSE Cancelled(c)]
    /\ UNCHANGED <<engineVars, commitment_statuses, queueVars, loopVars, op,
                   drv, reply, calls, histVars>>
    /\ UNCHANGED <<findVars, storeVars, parityVars, sideVars, plot_db, synced>>

\* Drop for Inner: `let plot_db = self.plot_db.take();`
TakePlotDb ==
    /\ senders = {}
    /\ plot_db = "held"
    /\ plot_db' = "taken"
    /\ UNCHANGED <<plotVars, findVars, storeVars, parityVars, sideVars, senders, synced>>

\* Drop for Inner: `background_handle.await` returns, then `drop(plot_db)`.
AwaitBackground ==
    /\ plot_db = "taken"
    /\ Terminated
    /\ plot_db' = "dropped"
    /\ UNCHANGED <<plotVars, findVars, storeVars, parityVars, sideVars, senders, synced>>

Shutdown ==
    \/ WakeChannelClosed
    \/ ReadChannelClosed
    \/ WriteChannelClosed
    \/ SyncAll
    \/ \E channel \in Channels : TakeSender(channel)
    \/ TakePlotDb
    \/ AwaitBackground

\* One step of the background task, in its loop or after it.
BackgroundTask ==
    \/ Engine
    \/ WakeChannelClosed
    \/ ReadChannelClosed
    \/ WriteChannelClosed
    \/ SyncAll

\* The plot is written and read by its tasks and dropped at any moment.
NextShutdown == NextFlood \/ Shutdown
\* tokio keeps scheduling the spawned background task.
FairShutdown == WF_vars(BackgroundTask)
SpecShutdown == InitIO /\ [][NextShutdown]_vars /\ FairShutdown

(***************************************************************************)
(* C19. Shutdown ordering: once the senders of the read, write and wake    *)
(* channels are all dropped, the loop of the background task eventually    *)
(* ends, from an idle or a busy state; the task calls sync_all on the      *)
(* piece file before it terminates; and the dropping thread releases       *)
(* plot_db only after the background task has terminated.                  *)
(***************************************************************************)
C19_ShutdownOrdering ==
    /\ (senders = {}) ~> Terminated
    /\ [](Terminated => synced)
    /\ [](plot_db = "dropped" => Terminated)

\* The plot was dropped while a call waited for a request that the
\* background task had not served; the task served it, synced and ended,
\* and plot_db was released.
C19_Witness ==
    /\ plot_db = "dropped"
    /\ Terminated
    /\ synced
    /\ \E c \in Clients :
           /\ result[c] = [state |-> "cancelled", val |-> "unserved"]
           /\ reply[c].state = "ok"


(***************************************************************************)
(* Failures of the piece file and of the tags databases. Each action is    *)
(* the handler of one request, taken from the queue as by the handler of   *)
(* the same request above, with one of its fallible calls returning Err.   *)
(***************************************************************************)
IO_ERROR == "io error"

\* The background task is in its loop.
InLoop == epc \in {"wait", "reads", "write"}

\* ReadRequests::ReadEncoding / ReadEncodings: seek or read_exact fails; the
\* try block is the error, which is sent.
ReadFails ==
    /\ ReadHead("ReadEncoding") \/ ReadHead("ReadEncodings")
    /\ reply' = [reply EXCEPT ![Head(read_requests).from] = Err(IO_ERROR)]
    /\ read_requests' = Tail(read_requests)
    /\ did_nothing' = FALSE
    /\ UNCHANGED <<engineVars, commitment_statuses, write_requests,
                   any_requests, epc, clientVars, histVars>>
    /\ UNCHANGED otherVars

\* ReadRequests::FindByRange: get_or_create_db fails; `continue` goes to the
\* next read request and result_sender is dropped.
FindByRangeOpenFails ==
    /\ ReadHead("FindByRange")
    /\ reply' = [reply EXCEPT ![Head(read_requests).from] = Dropped]
    /\ read_requests' = Tail(read_requests)
    /\ did_nothing' = FALSE
    /\ UNCHANGED <<engineVars, commitment_statuses, write_requests,
                   any_requests, epc, clientVars, histVars>>
    /\ UNCHANGED otherVars

\* WriteRequests::WriteEncodings: seek fails, or write_all fails after
\* `written` bytes; fetch_max is not reached and the error is sent.
WriteEncodingsFails ==
    /\ WriteHead("WriteEncodings")
    /\ LET req == Head(write_requests)
           whole_encoding == Concat(req.encodings)
       IN  /\ \E written \in 0..(Len(whole_encoding) - 1) :
                  plot_file' =
                      IF written = 0 THEN plot_file
                      ELSE WriteAll(plot_file, req.first_index * PIECE_SIZE,
                                    SubSeq(whole_encoding, 1, written))
           /\ reply' = [reply EXCEPT ![req.from] = Err(IO_ERROR)]
           /\ dirty' = [c \in Clients |-> TRUE]
    /\ write_requests' = Tail(write_requests)
    /\ LoopAgain(FALSE)
    /\ UNCHANGED <<piece_count, commitments, commitment_statuses,
                   read_requests, any_requests, clientVars, mine, clobbered,
                   scn, recreated>>
    /\ UNCHANGED otherVars

\* WriteTags, FinishCommitmentCreation, RemoveCommitment: get_or_create_db,
\* finish_commitment_creation or remove_commitment of Commitments fails;
\* `continue` starts the next iteration and result_sender is dropped.
TagsRequestFails ==
    /\ \/ WriteHead("WriteTags")
       \/ WriteHead("FinishCommitmentCreation")
       \/ WriteHead("RemoveCommitment")
    /\ reply' = [reply EXCEPT ![Head(write_requests).from] = Dropped]
    /\ write_requests' = Tail(write_requests)
    /\ LoopAgain(FALSE)
    /\ UNCHANGED <<engineVars, commitment_statuses, read_requests,
                   any_requests, clientVars, histVars>>
    /\ UNCHANGED otherVars

\* WriteRequests::WriteTags: tags_db.put fails after `put` tags; the closure
\* returns the error and `.await.unwrap().unwrap()` panics in the task.
WriteTagsPutFails ==
    /\ WriteHead("WriteTags")
    /\ LET req == Head(write_requests)
           cs == get_or_create_db(commitments, req.salt)
       IN  /\ \E put \in 0..(Len(req.tags) - 1) :
                  commitments' = [cs EXCEPT ![req.salt].tags =
                      WriteTags(@, req.first_index, SubSeq(req.tags, 1, put))]
           /\ reply' = [reply EXCEPT ![req.from] = Dropped]
           /\ recreated' = Reopened(req.salt)
    /\ write_requests' = Tail(write_requests)
    /\ epc' = "panicked"
    /\ UNCHANGED <<plot_file, piece_count, commitment_statuses, read_requests,
                   any_requests, did_nothing, clientVars, mine, clobbered, scn,
                   dirty>>
    /\ UNCHANGED otherVars

\* The task is gone and its receivers with it: the send of a request fails,
\* or the oneshot sender of a queued request is dropped.
Disconnected(c) ==
    /\ epc = "panicked"
    /\ pc[c] \in {"notify", "await"}
    /\ reply[c] = Pending
    /\ reply' = [reply EXCEPT ![c] = Dropped]
    /\ UNCHANGED <<engineVars, commitment_statuses, queueVars, loopVars,
                   clientVars, histVars>>
    /\ UNCHANGED otherVars

Failures ==
    \/ ReadFails
    \/ FindByRangeOpenFails
    \/ WriteEncodingsFails
    \/ TagsRequestFails
    \/ WriteTagsPutFails
    \/ \E c \in Clients : Disconnected(c)

\* All public calls of the plot, on a disk and on databases that may fail.
NextFaulty == Next \/ Failures
SpecFaulty == Init /\ [][NextFaulty]_vars

(***************************************************************************)
(* C17. Engine errors are reported on the reply channel: for every request *)
(* the engine takes from a queue and whose handling fails (seek, read or   *)
(* write of the piece file, opening the tags database of the salt, a put   *)
(* into it, finish or remove), the error is sent as the result on the      *)
(* oneshot reply channel of that request.                                  *)
(***************************************************************************)
\* The handling of the request of task c fails in this step.
HandlingFails(c) ==
    \/ /\ epc = "reads"
       /\ read_requests # <<>>
       /\ Head(read_requests).from = c
       /\ ReadFails \/ FindByRangeOpenFails
    \/ /\ epc = "write"
       /\ write_requests # <<>>
       /\ Head(write_requests).from = c
       /\ WriteEncodingsFails \/ TagsRequestFails \/ WriteTagsPutFails

C17_ErrorsAreReplied ==
    [][\A c \in Clients : HandlingFails(c) => reply'[c].state = "err"]_vars

(***************************************************************************)
(* C18. The loop does not abort on per-request errors: after any request   *)
(* fails the background task is still running and serves the requests      *)
(* that follow; the loop ends only when the senders are dropped.           *)
(***************************************************************************)
C18_LoopSurvivesErrors ==
    senders = Channels => InLoop


(***************************************************************************)
(* C20. retain_commitments(keep) removes every salt not in keep: when it   *)
(* returns success, every salt that had a status entry at the call and is  *)
(* not in keep has no status entry and no tags database on disk, and the   *)
(* status of every salt in keep is what it was at the call.                 *)
(***************************************************************************)
\* retain_commitments of task c returns Ok(()) in this step.
RetainReturns(c) ==
    /\ op'[c].name = "retain_commitments"
    /\ op[c] # op'[c] \/ pc[c] # "idle"
    /\ pc'[c] = "idle"
    /\ result'[c] = Ok(Unit)

C20_RetainRemovesTheRest ==
    [][\A c \in Clients :
           RetainReturns(c) =>
               \A s \in Salts :
                   IF s \in op'[c].keep
                   THEN commitment_statuses'[s] = op'[c].statuses[s]
                   ELSE op'[c].statuses[s] # "absent" =>
                            /\ commitment_statuses'[s] = "absent"
                            /\ ~OnDisk(s)']_vars


(***************************************************************************)
(* Commitments of two salts over a plot that holds one piece when it is    *)
(* opened: create_commitment and remove_commitment called by two tasks.    *)
(***************************************************************************)
StatusCalls ==
    \/ ServeReadEncodings
    \/ ServeWriteTags
    \/ ServeFinishCommitmentCreation
    \/ ServeRemoveCommitment
    \/ \E c \in Clients, salt \in Salts : RemoveCommitmentCall(c, salt)
    \/ \E c \in Clients : RemoveLock(c)
    \/ \E c \in Clients : RemoveSend(c)
    \/ \E c \in Clients : RemoveReturn(c)
    \/ \E c \in Clients, salt \in Salts : CreateCommitmentCall(c, salt)
    \/ \E c \in Clients : CreateCommitmentLoad(c)
    \/ \E c \in Clients : CreateCommitmentCheck(c)
    \/ \E c \in Clients : CreateCommitmentRead(c)
    \/ \E c \in Clients : CreateCommitmentWriteTags(c)
    \/ \E c \in Clients : CreateCommitmentNextBatch(c)
    \/ \E c \in Clients : CreateCommitmentAbortedAfterLoop(c)
    \/ \E c \in Clients : CreateCommitmentFinish(c)
    \/ \E c \in Clients : CreateCommitmentFinished(c)

InitStatus ==
    OpenedOn(PieceOf(Plotter, 0)) /\ FindIdle /\ StoreIdle /\ ParityIdle
NextStatus == Loop \/ StatusCalls
SpecStatus == InitStatus /\ [][NextStatus]_vars


(***************************************************************************)
(* C21. remove_commitment(salt) on a salt whose status is InProgress or    *)
(* Aborted sets the status to Aborted and returns success at once: it      *)
(* submits no RemoveCommitment request and leaves the tags databases on    *)
(* disk and the status of every other salt as they are. Only for a Created *)
(* or missing entry does it remove the entry and go on to submit           *)
(* RemoveCommitment.                                                       *)
(***************************************************************************)
\* The locked block of remove_commitment(salt) runs in this step, called by
\* task c itself or from its create_commitment.
RemoveCommitmentRuns(c, salt) ==
    \/ RemoveCommitmentCall(c, salt)
    \/ RemoveLock(c) /\ drv[c].rm_salt = salt

C21_RemoveDelayedOrSubmitted ==
    [][\A c \in Clients, salt \in Salts :
           RemoveCommitmentRuns(c, salt) =>
               IF commitment_statuses[salt] \in {"InProgress", "Aborted"}
               THEN /\ commitment_statuses' =
                           [commitment_statuses EXCEPT ![salt] = "Aborted"]
                    /\ write_requests' = write_requests
                    /\ commitments' = commitments
                    /\ pc'[c] = "idle"
                    /\ op'[c].name = "remove_commitment" => result'[c] = Ok(Unit)
               ELSE /\ commitment_statuses' =
                           [commitment_statuses EXCEPT ![salt] = "absent"]
                    /\ pc'[c] = "rm_send"
                    /\ drv'[c].rm_salt = salt]_vars

\* A task removed a salt that was being built, with its first tags on disk,
\* while the other salt was Created: it got success and the salt is Aborted.
C21_Witness ==
    \E c \in Clients, other \in Salts :
        /\ op[c].name = "remove_commitment"
        /\ op[c].found = "InProgress"
        /\ other # op[c].salt
        /\ pc[c] = "idle"
        /\ result[c] = Ok(Unit)
        /\ commitment_statuses[op[c].salt] = "Aborted"
        /\ OnDisk(op[c].salt)
        /\ commitment_statuses[other] = "Created"


(***************************************************************************)
(* C22. create_commitment(salt) is a no-op on a finished salt: if the      *)
(* status is Created when it takes the lock, it returns success at once,   *)
(* sends no request and leaves the status map and the tags databases       *)
(* unchanged; otherwise it sets the status to InProgress before it issues  *)
(* any read or write request.                                              *)
(***************************************************************************)
NothingSent ==
    /\ read_requests' = read_requests
    /\ write_requests' = write_requests
    /\ any_requests' = any_requests

C22_NoOpWhenCreated ==
    [][\A c \in Clients, salt \in Salts :
           CreateCommitmentCall(c, salt) =>
               /\ NothingSent
               /\ commitments' = commitments
               /\ IF commitment_statuses[salt] = "Created"
                  THEN /\ pc'[c] = "idle"
                       /\ result'[c] = Ok(Unit)
                       /\ commitment_statuses' = commitment_statuses
                  ELSE /\ pc'[c] # "idle"
                       /\ commitment_statuses' =
                              [commitment_statuses EXCEPT ![salt] = "InProgress"]]_vars

\* A task called create_commitment for a salt that is Created with its tag
\* on disk, and has returned.
C22_Witness ==
    \E c \in Clients :
        /\ op[c].name = "create_commitment"
        /\ scn[c] = "early"
        /\ pc[c] = "idle"
        /\ result[c] = Ok(Unit)
        /\ commitment_statuses[op[c].salt] = "Created"
        /\ commitments[op[c].salt].tags # EmptyDb


(***************************************************************************)
(* C24. Read priority: in every iteration the background task serves read  *)
(* requests until it observes the read queue empty and only then serves at *)
(* most one write request. So the drain of the reads ends only on an empty *)
(* queue, a write is served only right after such a drain (the reads then  *)
(* queued arrived after the drain), and after a write the task is back at  *)
(* the reads or at the wait, never at a second write.                      *)
(***************************************************************************)
\* The background task takes a write request from its queue in this step.
TakesWrite ==
    /\ write_requests # <<>>
    /\ write_requests' = Tail(write_requests)

\* The background task leaves the loop of the reads in this step.
DrainEnds ==
    /\ epc = "reads"
    /\ epc' = "write"

C24_ReadPriority ==
    [][/\ DrainEnds => read_requests = <<>>
       /\ (epc # "write" /\ epc' = "write") => DrainEnds
       /\ TakesWrite => (epc = "write" /\ epc' \in {"reads", "wait"})]_vars

\* A write was served, and not yet returned, while a read that arrived after
\* the drain of the reads is queued.
C24_Witness ==
    \E c \in Clients :
        /\ op[c].name = "write_many"
        /\ pc[c] = "await"
        /\ reply[c] = Ok(Unit)
        /\ read_requests # <<>>
        /\ epc = "reads"


(***************************************************************************)
(* The handlers of the background task step by step: a handler begins when *)
(* its request is taken from the queue, a WriteEncodings handler writes    *)
(* its pieces and a WriteTags handler puts its tags one at a time, and a   *)
(* handler ends when it sends its result. in_service holds the requests    *)
(* whose handler has begun and not ended, with the number of pieces or     *)
(* tags applied so far.                                                    *)
(***************************************************************************)
\* A faulty variant: the loop goes on while a handler runs, as if handlers
\* were spawned.
Spawned == TRUE

\* Every handler is awaited inside the loop: the loop takes no step while a
\* handler runs.
Awaited == in_service = {}

ReadKinds == {"ReadEncoding", "ReadEncodings", "FindByRange"}

\* The pieces or tags a write request applies one by one.
Batch(req) ==
    IF req.kind = "WriteEncodings" THEN req.encodings
    ELSE IF req.kind = "WriteTags" THEN req.tags
    ELSE <<>>

\* `while let Ok(read_request) = read_requests_receiver.try_next()`: a read
\* request is taken and its handler begins.
BeginRead ==
    /\ epc = "reads"
    /\ read_requests # <<>>
    /\ Awaited
    /\ in_service' = in_service \cup {[req |-> Head(read_requests), done |-> 0]}
    /\ read_requests' = Tail(read_requests)
    /\ did_nothing' = FALSE
    /\ UNCHANGED <<engineVars, commitment_statuses, write_requests,
                   any_requests, epc, clientVars, reply, histVars>>
    /\ UNCHANGED <<findVars, storeVars, parityVars, shutdownVars, orderVars,
                   cancelVars, storageVars, lockVars>>

\* `write_requests_receiver.try_next()` is Ok(Some(request)): its handler
\* begins; the next iteration follows the handler.
BeginWrite ==
    /\ epc = "write"
    /\ write_requests # <<>>
    /\ Awaited
    /\ in_service' = in_service \cup {[req |-> Head(write_requests), done |-> 0]}
    /\ write_requests' = Tail(write_requests)
    /\ LoopAgain(FALSE)
    /\ UNCHANGED <<engineVars, commitment_statuses, read_requests,
                   any_requests, clientVars, reply, histVars>>
    /\ UNCHANGED <<findVars, storeVars, parityVars, shutdownVars, orderVars,
                   cancelVars, storageVars, lockVars>>

\* WriteEncodings: write_all has written one more piece of whole_encoding.
ApplyPiece(s) ==
    /\ s \in in_service
    /\ s.req.kind = "WriteEncodings"
    /\ s.done < Len(s.req.encodings)
    /\ plot_file' = WriteAll(plot_file,
                             (s.req.first_index + s.done) * PIECE_SIZE,
                             s.req.encodings[s.done + 1])
    /\ in_service' = (in_service \ {s}) \cup {[s EXCEPT !.done = @ + 1]}
    /\ UNCHANGED <<piece_count, commitments, commitment_statuses, queueVars,
                   loopVars, clientVars, reply, histVars>>
    /\ UNCHANGED <<findVars, storeVars, parityVars, shutdownVars, orderVars,
                   cancelVars, storageVars, lockVars>>

\* WriteTags: one more `tags_db.put(tag, index.to_le_bytes())`.
ApplyTag(s) ==
    /\ s \in in_service
    /\ s.req.kind = "WriteTags"
    /\ s.done < Len(s.req.tags)
    /\ LET cs == get_or_create_db(commitments, s.req.salt)
       IN  commitments' = [cs EXCEPT ![s.req.salt].tags =
               DbPut(@, s.req.tags[s.done + 1],
                     ToLeBytes(s.req.first_index + s.done))]
    /\ in_service' = (in_service \ {s}) \cup {[s EXCEPT !.done = @ + 1]}
    /\ UNCHANGED <<plot_file, piece_count, commitment_statuses, queueVars,
                   loopVars, clientVars, reply, histVars>>
    /\ UNCHANGED <<findVars, storeVars, parityVars, shutdownVars, orderVars,
                   cancelVars, storageVars, lockVars>>

\* What the handler of a request sends when it ends.
ResultOf(req, file, cs) ==
    IF req.kind = "ReadEncoding" THEN ReadEncoding(file, req.index)
    ELSE IF req.kind = "ReadEncodings"
         THEN ReadEncodings(file, req.first_index, req.count)
    ELSE IF req.kind = "FindByRange"
         THEN Ok(FindByRange(cs[req.salt].tags, req.target, req.range))
    ELSE Ok(Unit)

\* The tags databases when the handler of a request ends.
CommitmentsAfter(req, cs) ==
    IF req.kind \in {"FindByRange", "WriteTags"}
    THEN get_or_create_db(cs, req.salt)
    ELSE IF req.kind = "FinishCommitmentCreation"
         THEN finish_commitment_creation(cs, req.salt)
    ELSE cs

\* `let _ = result_sender.send(...)`: the handler ends.
EndHandler(s) ==
    /\ s \in in_service
    /\ s.done = Len(Batch(s.req))
    /\ commitments' = CommitmentsAfter(s.req, commitments)
    /\ reply' = [reply EXCEPT ![s.req.from] =
                    ResultOf(s.req, plot_file, commitments')]
    /\ piece_count' = IF s.req.kind = "WriteEncodings"
                      THEN FetchMax(piece_count, s.req.first_index, s.req.encodings)
                      ELSE piece_count
    /\ in_service' = in_service \ {s}
    /\ UNCHANGED <<plot_file, commitment_statuses, queueVars, loopVars,
                   clientVars, histVars>>
    /\ UNCHANGED <<findVars, storeVars, parityVars, shutdownVars, orderVars,
                   cancelVars, storageVars, lockVars>>

\* The steps of the loop between handlers.
BetweenHandlers ==
    /\ Awaited
    /\ WaitForRequests \/ ReadsExhausted \/ NoWriteRequest

\* The tasks write and read pieces, build the commitment of one salt and
\* look tags up in it.
SerialCalls ==
    \/ \E c \in Clients : Notify(c)
    \/ \E n \in PlotLengths : WriteManyCall(Plotter, 0, n)
    \/ WriteManyReturn(Plotter)
    \/ \E c \in Clients : ReadCall(c, 0)
    \/ \E c \in Clients : ReadReturn(c)
    \/ \E c \in Clients, salt \in SingleSalt : \E target \in Targets(salt) :
           FindByRangeCall(c, target, 0, salt)
    \/ \E c \in Clients : FindByRangeReturn(c)
    \/ \E c \in Clients, salt \in SingleSalt : CreateCommitmentCall(c, salt)
    \/ \E c \in Clients : CreateCommitmentLoad(c)
    \/ \E c \in Clients : CreateCommitmentCheck(c)
    \/ \E c \in Clients : CreateCommitmentRead(c)
    \/ \E c \in Clients : CreateCommitmentWriteTags(c)
    \/ \E c \in Clients : CreateCommitmentNextBatch(c)
    \/ \E c \in Clients : CreateCommitmentAbortedAfterLoop(c)
    \/ \E c \in Clients : CreateCommitmentFinish(c)
    \/ \E c \in Clients : CreateCommitmentFinished(c)

NextSerial ==
    \/ BetweenHandlers
    \/ BeginRead
    \/ BeginWrite
    \/ \E s \in in_service : ApplyPiece(s)
    \/ \E s \in in_service : ApplyTag(s)
    \/ \E s \in in_service : EndHandler(s)
    \/ SerialCalls
SpecSerial == Init /\ [][NextSerial]_vars

(***************************************************************************)
(* C25. Serialized execution: the background task serves at most one       *)
(* request at a time, so every request takes effect atomically with        *)
(* respect to the others: a read or FindByRange never observes a partly    *)
(* applied WriteEncodings or WriteTags batch, and a write never preempts a *)
(* read that is being served.                                              *)
(***************************************************************************)
\* A write handler has applied some and not all of its batch.
PartlyApplied(s) ==
    /\ s.done > 0
    /\ s.done < Len(Batch(s.req))

\* The handler of a read request ends in this step.
ReadEnds ==
    \E s \in in_service : s.req.kind \in ReadKinds /\ s \notin in_service'

\* The handler of a write request begins in this step.
WriteBegins ==
    \E s \in in_service' : s.req.kind \notin ReadKinds /\ s \notin in_service

C25_Serialized ==
    /\ [](Cardinality(in_service) <= 1)
    /\ [][/\ ReadEnds => \A s \in in_service : ~PartlyApplied(s)
          /\ WriteBegins => \A s \in in_service : s.req.kind \notin ReadKinds]_vars

\* Some and not all of the pieces of a write are on disk, and a read waits
\* in the queue.
C25_Witness ==
    \E s \in in_service :
        /\ s.req.kind = "WriteEncodings"
        /\ PartlyApplied(s)
        /\ read_requests # <<>>
        /\ Head(read_requests).kind = "ReadEncoding"


(***************************************************************************)
(* The order of WriteTags and FindByRange: tasks build, look up and remove *)
(* the commitment of one salt over a plot that holds three pieces when it  *)
(* is opened and that is not written. acked records, per task and salt,    *)
(* the tags of the task's WriteTags requests that were served (served) and *)
(* of those whose acknowledgement the task has received (seen) since a     *)
(* RemoveCommitment of the salt was last served.                           *)
(***************************************************************************)
\* WriteRequests::WriteTags is served.
RecordServed ==
    /\ WriteTagsServed
    /\ LET req == Head(write_requests)
       IN  acked' = [acked EXCEPT ![req.from][req.salt].served =
                         @ \cup {req.tags[k] : k \in DOMAIN req.tags}]
    /\ UNCHANGED <<findVars, storeVars, parityVars, shutdownVars, serialVars,
                   cancelVars, storageVars, lockVars>>

\* `result_receiver.await` of WriteTags returns in create_commitment.
AckedNextBatch(c) ==
    /\ WriteTagsAcknowledged(c)
    /\ acked' = IF reply[c].state = "ok"
                THEN [acked EXCEPT ![c][op[c].salt].seen =
                          acked[c][op[c].salt].served]
                ELSE acked
    /\ UNCHANGED <<findVars, storeVars, parityVars, shutdownVars, serialVars,
                   cancelVars, storageVars, lockVars>>

\* WriteRequests::RemoveCommitment is served.
ForgetRemoved ==
    /\ RemoveCommitmentServed
    /\ acked' = [c \in Clients |->
                    [acked[c] EXCEPT ![Head(write_requests).salt] = NoTags]]
    /\ UNCHANGED <<findVars, storeVars, parityVars, shutdownVars, serialVars,
                   cancelVars, storageVars, lockVars>>

OrderCalls ==
    \/ ServeReadEncodings
    \/ ServeFindByRange
    \/ RecordServed
    \/ ServeFinishCommitmentCreation
    \/ ForgetRemoved
    \/ \E c \in Clients, salt \in SingleSalt : \E target \in Targets(salt) :
           FindByRangeCall(c, target, 0, salt)
    \/ \E c \in Clients : FindByRangeReturn(c)
    \/ \E c \in Clients, salt \in SingleSalt : RemoveCommitmentCall(c, salt)
    \/ \E c \in Clients : RemoveLock(c)
    \/ \E c \in Clients : RemoveSend(c)
    \/ \E c \in Clients : RemoveReturn(c)
    \/ \E c \in Clients, salt \in SingleSalt : CreateCommitmentCall(c, salt)
    \/ \E c \in Clients : CreateCommitmentLoad(c)
    \/ \E c \in Clients : CreateCommitmentCheck(c)
    \/ \E c \in Clients : CreateCommitmentRead(c)
    \/ \E c \in Clients : CreateCommitmentWriteTags(c)
    \/ \E c \in Clients : AckedNextBatch(c)
    \/ \E c \in Clients : CreateCommitmentAbortedAfterLoop(c)
    \/ \E c \in Clients : CreateCommitmentFinish(c)
    \/ \E c \in Clients : CreateCommitmentFinished(c)

ThreePieces ==
    Concat(<<PieceOf(Plotter, 0), PieceOf(Plotter, 1), PieceOf(Plotter, 2)>>)

InitOrder == OpenedOn(ThreePieces) /\ FindIdle /\ StoreIdle /\ ParityIdle
NextOrder == Loop \/ OrderCalls
SpecOrder == InitOrder /\ [][NextOrder]_vars

(***************************************************************************)
(* C26. Write-then-find ordering: within one salt, once a task has         *)
(* received the acknowledgement of a WriteTags request, every FindByRange  *)
(* it issues afterwards for that salt is served against a tags database    *)
(* that holds all tags of that WriteTags, unless a RemoveCommitment of the *)
(* salt was served in between. A lookup of such a tag with range 0 finds   *)
(* it.                                                                     *)
(***************************************************************************)
\* The FindByRange request of task c is served in this step.
FindServedFor(c) ==
    /\ ReadHead("FindByRange")
    /\ Head(read_requests).from = c
    /\ read_requests' = Tail(read_requests)

C26_WriteThenFind ==
    [][\A c \in Clients :
           FindServedFor(c) =>
               LET req == Head(read_requests)
                   db == commitments'[req.salt].tags
               IN  /\ acked[c][req.salt].seen \subseteq DOMAIN db
                   /\ req.target \in acked[c][req.salt].seen =>
                          reply'[c] = Ok(Some(<<req.target,
                                               FromLeBytes(db[req.target])>>))]_vars

\* A task that saw the tags of all three pieces acknowledged looked the tag
\* of piece 0 up and found it.
C26_Witness ==
    \E c \in Clients :
        /\ op[c].name = "find_by_range"
        /\ pc[c] = "await"
        /\ Cardinality(acked[c][op[c].salt].seen) = 3
        /\ reply[c] = Ok(Some(<<op[c].target, 0>>))


(***************************************************************************)
(* Cancellation of create_commitment: tasks build and remove the commitment *)
(* of one salt over a plot of three pieces, which is two batches.          *)
(* aborting[d] records what happened since the run of create_commitment    *)
(* that task d is in was told to abort: "no" while no remove_commitment    *)
(* has set the status of its salt to Aborted during the run, "yes" once    *)
(* one has, "sent" and "twice" after the run has submitted one and two     *)
(* WriteTags requests since.                                               *)
(***************************************************************************)
ToldToAbort(salt) ==
    [d \in Clients |->
        IF /\ DeletionDelayed(commitment_statuses[salt])
           /\ Running(d, salt)
           /\ aborting[d] = "no"
        THEN "yes" ELSE aborting[d]]

OneMoreSent(c) ==
    IF reply[c].state # "ok" \/ aborting[c] = "no" THEN aborting[c]
    ELSE IF aborting[c] = "yes" THEN "sent"
    ELSE "twice"

\* The index range of the WriteTags request that the run of task c submits.
OneMoreBatch(c) ==
    IF reply[c].state # "ok" THEN batches[c]
    ELSE Append(batches[c], [first |-> drv[c].batch_start,
                             n |-> Len(TagsOf(reply[c].val, op[c].salt))])

CancelFrame == UNCHANGED <<findVars, storeVars, parityVars, shutdownVars,
                           serialVars, orderVars, storageVars, lockVars>>

RemoveCommitmentCallTells(c, salt) ==
    /\ RemoveCommitmentCalled(c, salt)
    /\ aborting' = ToldToAbort(salt)
    /\ UNCHANGED <<batches, retained>>
    /\ CancelFrame

RemoveLockTells(c) ==
    /\ RemoveLockTaken(c)
    /\ aborting' = ToldToAbort(drv[c].rm_salt)
    /\ UNCHANGED <<batches, retained>>
    /\ CancelFrame

CreateCommitmentCallFresh(c, salt) ==
    /\ CreateCommitmentCalled(c, salt)
    /\ aborting' = [aborting EXCEPT ![c] = "no"]
    /\ batches' = [batches EXCEPT ![c] = <<>>]
    /\ retained' = retained \ {c}
    /\ CancelFrame

CreateCommitmentWriteTagsCounted(c) ==
    /\ TagsSubmitted(c)
    /\ aborting' = [aborting EXCEPT ![c] = OneMoreSent(c)]
    /\ batches' = [batches EXCEPT ![c] = OneMoreBatch(c)]
    /\ UNCHANGED retained
    /\ CancelFrame

CancelCalls ==
    \/ ServeReadEncodings
    \/ ServeWriteTags
    \/ ServeFinishCommitmentCreation
    \/ ServeRemoveCommitment
    \/ \E c \in Clients, salt \in SingleSalt : RemoveCommitmentCallTells(c, salt)
    \/ \E c \in Clients : RemoveLockTells(c)
    \/ \E c \in Clients : RemoveSend(c)
    \/ \E c \in Clients : RemoveReturn(c)
    \/ \E c \in Clients, salt \in SingleSalt : CreateCommitmentCallFresh(c, salt)
    \/ \E c \in Clients : CreateCommitmentLoad(c)
    \/ \E c \in Clients : CreateCommitmentCheck(c)
    \/ \E c \in Clients : CreateCommitmentRead(c)
    \/ \E c \in Clients : CreateCommitmentWriteTagsCounted(c)
    \/ \E c \in Clients : CreateCommitmentNextBatch(c)
    \/ \E c \in Clients : CreateCommitmentAbortedAfterLoop(c)
    \/ \E c \in Clients : CreateCommitmentFinish(c)
    \/ \E c \in Clients : CreateCommitmentFinished(c)

NextCancel == Loop \/ CancelCalls
SpecCancel == InitOrder /\ [][NextCancel]_vars

(***************************************************************************)
(* C27. Batch boundaries are the only cancellation point: after            *)
(* remove_commitment has set the status of a salt to Aborted, the running  *)
(* create_commitment of that salt submits at most one further WriteTags    *)
(* request (that of the batch it was processing) and never starts a new    *)
(* batch.                                                                  *)
(***************************************************************************)
\* Task d passes the test at the head of the loop body and goes on to read
\* the pieces of a batch.
StartsBatch(d) ==
    /\ pc[d] # "cc_read_send"
    /\ pc'[d] = "cc_read_send"

C27_StopsAtBatchBoundary ==
    [][\A d \in Clients :
           aborting[d] # "no" =>
               /\ ~StartsBatch(d)
               /\ aborting'[d] # "twice"]_vars


(***************************************************************************)
(* C28. Plot file size invariant: after every served WriteEncodings        *)
(* request, for any first index, also one beyond the current piece count,  *)
(* the length of the plot file is a multiple of PIECE_SIZE and the shared  *)
(* piece_count equals that length / PIECE_SIZE; piece_count becomes        *)
(* max(piece_count, first_index + n) and never decreases.                  *)
(***************************************************************************)
WholePieces ==
    /\ Len(plot_file) % PIECE_SIZE = 0
    /\ piece_count = Len(plot_file) \div PIECE_SIZE

C28_FileSizeInvariant ==
    /\ []WholePieces
    /\ [][/\ piece_count' >= piece_count
          /\ WriteEncodingsServed =>
                 LET req == Head(write_requests)
                 IN  piece_count' = Max(piece_count,
                                        req.first_index + Len(req.encodings))]_vars

\* Two pieces were written at index 1 of an empty plot: the file is three
\* pieces long, the first of them a hole of zeros.
C28_Witness ==
    \E c \in Clients :
        /\ mine[c].served
        /\ mine[c].first_index = 1
        /\ Len(mine[c].encodings) = 2
        /\ piece_count = 3
        /\ Len(plot_file) = 3 * PIECE_SIZE
        /\ SubSeq(plot_file, 1, PIECE_SIZE) = [j \in 1..PIECE_SIZE |-> 0]


(***************************************************************************)
(* MemoryProviderStorage::default(), then add_provider and remove_provider *)
(* calls. prov_log is the sequence of the calls made.                      *)
(***************************************************************************)
ProviderPeers == {3, 5}
Addresses == {1, 2}
ProviderRecords ==
    [key : ParityKeys, provider : ProviderPeers, expires : {None},
     addresses : Addresses]

\* A faulty variant: a record that is in the list already is not added again.
AddProviderOnce(map, record) ==
    IF record.key \notin DOMAIN map THEN (record.key :> <<record>>) @@ map
    ELSE IF \E i \in DOMAIN map[record.key] : map[record.key][i] = record
    THEN map
    ELSE [map EXCEPT ![record.key] = Append(@, record)]

\* `self.providers.entry(record.key.clone()).or_insert_with(..)`, then
\* `records.push(record)`
AddProvider(map, record) ==
    IF record.key \in DOMAIN map
    THEN [map EXCEPT ![record.key] = Append(@, record)]
    ELSE (record.key :> <<record>>) @@ map

\* `rec.provider != *provider` of the retain in remove_provider
RetainedBy(provider, records) ==
    LET Other(rec) == rec.provider # provider
    IN  SelectSeq(records, Other)

\* `self.providers.entry(key.clone()).and_modify(|e| e.retain(..))`
RemoveProvider(map, key, provider) ==
    IF key \in DOMAIN map
    THEN [map EXCEPT ![key] = RetainedBy(provider, @)]
    ELSE map

\* MemoryProviderStorage::providers
ProvidersOf(map, key) ==
    IF key \in DOMAIN map THEN map[key] ELSE <<>>

AddProviderCall(record) ==
    /\ Len(prov_log) < MaxOps
    /\ providers' = AddProvider(providers, record)
    /\ prov_log' = Append(prov_log, [kind |-> "add", key |-> record.key,
                                     provider |-> record.provider,
                                     record |-> record])
    /\ UNCHANGED <<plotVars, findVars, storeVars, parityVars, shutdownVars,
                   serialVars, orderVars, cancelVars, getOnlyVars, lockVars>>

RemoveProviderCall(key, provider) ==
    /\ Len(prov_log) < MaxOps
    /\ providers' = RemoveProvider(providers, key, provider)
    /\ prov_log' = Append(prov_log, [kind |-> "remove", key |-> key,
                                     provider |-> provider,
                                     record |-> None])
    /\ UNCHANGED <<plotVars, findVars, storeVars, parityVars, shutdownVars,
                   serialVars, orderVars, cancelVars, getOnlyVars, lockVars>>

NextProviders ==
    \/ \E record \in ProviderRecords : AddProviderCall(record)
    \/ \E key \in ParityKeys, provider \in ProviderPeers :
           RemoveProviderCall(key, provider)
SpecProviders == Init /\ [][NextProviders]_vars

(***************************************************************************)
(* C30. MemoryProviderStorage keeps duplicates and removes by peer: after  *)
(* any sequence of add_provider and remove_provider calls, providers(key)  *)
(* is the list, in insertion order and without deduplication, of all       *)
(* records added for that key whose provider was not given to a later      *)
(* remove_provider(key, peer); remove_provider(key, peer) leaves the       *)
(* records of other peers and of other keys unchanged.                     *)
(***************************************************************************)
\* Call i of the log added a record under the key, and no later call removed
\* the provider of that record from the key.
Survives(log, key, i) ==
    /\ log[i].kind = "add"
    /\ log[i].key = key
    /\ ~\E j \in (i + 1)..Len(log) :
           /\ log[j].kind = "remove"
           /\ log[j].key = key
           /\ log[j].provider = log[i].provider

RECURSIVE Survivors(_, _, _)
Survivors(log, key, i) ==
    IF i > Len(log) THEN <<>>
    ELSE (IF Survives(log, key, i) THEN <<log[i].record>> ELSE <<>>)
             \o Survivors(log, key, i + 1)

RemoveProviderCalled(key, provider) ==
    /\ Len(prov_log') = Len(prov_log) + 1
    /\ prov_log'[Len(prov_log')].kind = "remove"
    /\ prov_log'[Len(prov_log')].key = key
    /\ prov_log'[Len(prov_log')].provider = provider

C30_ProvidersKeptAndRemovedByPeer ==
    /\ [](\A key \in ParityKeys :
              ProvidersOf(providers, key) = Survivors(prov_log, key, 1))
    /\ [][\A key \in ParityKeys, provider \in ProviderPeers :
              RemoveProviderCalled(key, provider) =>
                  /\ \A k \in ParityKeys \ {key} :
                         ProvidersOf(providers', k) = ProvidersOf(providers, k)
                  /\ \A other \in ProviderPeers \ {provider} :
                         LET Of(rec) == rec.provider = other
                         IN  SelectSeq(ProvidersOf(providers', key), Of)
                                 = SelectSeq(ProvidersOf(providers, key), Of)
                  /\ \A i \in DOMAIN ProvidersOf(providers', key) :
                         ProvidersOf(providers', key)[i].provider # provider]_vars

\* The same record was added twice under a key, between them a record of
\* another peer that was then removed: the list holds the record twice.
C30_Witness ==
    \E key \in ParityKeys :
        /\ Len(prov_log) = 4
        /\ prov_log[4].kind = "remove"
        /\ prov_log[4].key = key
        /\ prov_log[2].kind = "add"
        /\ prov_log[2].key = key
        /\ prov_log[2].provider = prov_log[4].provider
        /\ Len(ProvidersOf(providers, key)) = 2
        /\ providers[key][1] = providers[key][2]


(***************************************************************************)
(* GetOnlyRecordStorage::new(value_getter), then get, put, remove and      *)
(* records calls. g_last is the last call, what it returned and the number *)
(* of put and remove calls so far; g_first is what the first get of every  *)
(* key returned, and which call it was.                                    *)
(***************************************************************************)
\* Bytes whose length field does not match the digest that follows.
NotAMultihash == <<PIECE_CODE, 2, 9>>
GetOnlyKeys == {SectorKey, PieceKey, NotAMultihash}
\* The lookup functions: each gives a value for some multihashes.
Getters == [ParityKeys -> {None, Some(<<7>>)}]
MAX_RECORDS == "MaxRecords"

\* `Multihash::from_bytes(key.as_ref()).ok()`: the code, the length of the
\* digest, and a digest of exactly that length.
MultihashFromBytes(bytes) ==
    IF Len(bytes) >= 2 /\ bytes[2] = Len(bytes) - 2 THEN Some(bytes) ELSE None

\* A faulty variant: the local node is named as the publisher of the record.
GetOnlyGetPublished(getter, key) ==
    LET multihash_key == MultihashFromBytes(key)
    IN  IF multihash_key = None THEN None
        ELSE IF getter[multihash_key[1]] = None THEN None
        ELSE Some([key |-> key, value |-> getter[multihash_key[1]][1],
                   publisher |-> Some(0), expires |-> None])

\* GetOnlyRecordStorage::get
GetOnlyGet(getter, key) ==
    LET multihash_key == MultihashFromBytes(key)
    IN  IF multihash_key = None THEN None
        ELSE IF getter[multihash_key[1]] = None THEN None
        ELSE Some([key |-> key, value |-> getter[multihash_key[1]][1],
                   publisher |-> None, expires |-> None])

\* GetOnlyRecordStorage::put
GetOnlyPut(record) == Err(MAX_RECORDS)

\* GetOnlyRecordStorage::records
GetOnlyRecords == <<>>

GetOnlyFrame ==
    UNCHANGED <<plotVars, findVars, storeVars, parityVars, shutdownVars,
                serialVars, orderVars, cancelVars, providerVars, lockVars>>

GetOnlyNew(getter) ==
    /\ value_getter = None
    /\ value_getter' = Some(getter)
    /\ g_last' = [n |-> 0, writes |-> 0, kind |-> "new", key |-> <<>>,
                  out |-> Ok(Unit)]
    /\ UNCHANGED g_first
    /\ GetOnlyFrame

Called(kind, key, out) ==
    /\ value_getter # None
    /\ g_last.n < MaxOps
    /\ g_last' = [n |-> g_last.n + 1,
                  writes |-> g_last.writes
                                 + (IF kind \in {"put", "remove"} THEN 1 ELSE 0),
                  kind |-> kind, key |-> key, out |-> out]
    /\ UNCHANGED value_getter
    /\ GetOnlyFrame

GetOnlyGetCall(key) ==
    /\ Called("get", key, Ok(GetOnlyGet(value_getter[1], key)))
    /\ g_first' = IF key \in DOMAIN g_first THEN g_first
                  ELSE (key :> [out |-> GetOnlyGet(value_getter[1], key),
                                at |-> g_last.n + 1]) @@ g_first

GetOnlyPutCall(key, value) ==
    /\ Called("put", key, GetOnlyPut([key |-> key, value |-> value,
                                      publisher |-> None, expires |-> None]))
    /\ UNCHANGED g_first

GetOnlyRemoveCall(key) ==
    /\ Called("remove", key, Ok(Unit))
    /\ UNCHANGED g_first

GetOnlyRecordsCall ==
    /\ Called("records", <<>>, Ok(GetOnlyRecords))
    /\ UNCHANGED g_first

NextGetOnly ==
    \/ \E getter \in Getters : GetOnlyNew(getter)
    \/ \E key \in GetOnlyKeys : GetOnlyGetCall(key)
    \/ \E key \in GetOnlyKeys, value \in Values : GetOnlyPutCall(key, value)
    \/ \E key \in GetOnlyKeys : GetOnlyRemoveCall(key)
    \/ GetOnlyRecordsCall
SpecGetOnly == Init /\ [][NextGetOnly]_vars

(***************************************************************************)
(* C29. GetOnlyRecordStorage is read-only: every put returns the           *)
(* MaxRecords error, records() is always empty, and no sequence of put and *)
(* remove calls changes what get returns; get(key) returns a record, with  *)
(* no publisher and no expiry, exactly when the key parses as a multihash  *)
(* and the supplied lookup function returns a value for it.                *)
(***************************************************************************)
\* The key is the bytes of a multihash that the lookup function knows.
Known(key) ==
    /\ key \in ParityKeys
    /\ value_getter[1][key] # None

C29_GetOnlyIsReadOnly ==
    /\ g_last.kind = "put" => g_last.out = Err(MAX_RECORDS)
    /\ g_last.kind = "records" => g_last.out = Ok(<<>>)
    /\ g_last.kind = "get" =>
           /\ g_last.out = Ok(g_first[g_last.key].out)
           /\ g_last.out.val # None <=> Known(g_last.key)
           /\ Known(g_last.key) =>
                  g_last.out.val =
                      Some([key |-> g_last.key,
                            value |-> value_getter[1][g_last.key][1],
                            publisher |-> None, expires |-> None])

\* A key was looked up, put and removed, and looked up again: the record of
\* the lookup function is returned as before.
C29_Witness ==
    /\ g_last.n = 4
    /\ g_last.writes = 2
    /\ g_last.kind = "get"
    /\ g_first[g_last.key].at = 1
    /\ g_first[g_last.key].out # None
    /\ g_last.out = Ok(g_first[g_last.key].out)


(***************************************************************************)
(* The lock of commitment_statuses. create_commitment, remove_commitment   *)
(* and retain_commitments are followed from one lock(), end of scope or    *)
(* .await to the next: a task at an "enter" position is about to call      *)
(* lock(), at a "block" position it holds the guard, at an "await"         *)
(* position it is suspended on a channel send or on the reply of a         *)
(* request. The background task never takes this lock, so a suspended      *)
(* task resumes whatever mutex is.                                         *)
(***************************************************************************)
Entering == {"cc_enter", "cc_head", "cc_after", "cc_last", "rm_enter", "rt_enter"}
Holding == {"cc_block", "cc_test", "cc_after_block", "cc_last_block",
            "rm_block", "rt_stmt"}
Suspended == {"cc_read_await", "cc_tags_await", "cc_finish_await", "rm_await"}

\* A faulty variant: the guard lives on after its block.
KeepGuard(c) == c

\* The guard is dropped at the end of its block or statement.
DropGuard(c) == 0

LockFrame ==
    UNCHANGED <<engineVars, queueVars, loopVars, reply, result, calls, histVars,
                findVars, storeVars, parityVars, shutdownVars, serialVars,
                orderVars, cancelVars, storageVars>>

At(c, position) == pc' = [pc EXCEPT ![c] = position]

\* A task calls one of the three functions.
EnterCreateCommitment(c, salt) ==
    /\ pc[c] = "idle"
    /\ op' = [op EXCEPT ![c] = [name |-> "create_commitment", salt |-> salt]]
    /\ At(c, "cc_enter")
    /\ UNCHANGED <<commitment_statuses, drv, mutex>>
    /\ LockFrame

EnterRemoveCommitment(c, salt) ==
    /\ pc[c] = "idle"
    /\ op' = [op EXCEPT ![c] = [name |-> "remove_commitment", salt |-> salt]]
    /\ drv' = [drv EXCEPT ![c].rm_salt = salt]
    /\ At(c, "rm_enter")
    /\ UNCHANGED <<commitment_statuses, mutex>>
    /\ LockFrame

EnterRetainCommitments(c, keep) ==
    /\ pc[c] = "idle"
    /\ op' = [op EXCEPT ![c] = [name |-> "retain_commitments", keep |-> keep]]
    /\ At(c, "rt_enter")
    /\ UNCHANGED <<commitment_statuses, drv, mutex>>
    /\ LockFrame

\* `self.inner.commitment_statuses.lock().unwrap()`: the thread waits until
\* the mutex is free.
Block(position) ==
    CASE position = "cc_enter" -> "cc_block"
      [] position = "cc_head" -> "cc_test"
      [] position = "cc_after" -> "cc_after_block"
      [] position = "cc_last" -> "cc_last_block"
      [] position = "rm_enter" -> "rm_block"
      [] position = "rt_enter" -> "rt_stmt"

LockStatuses(c) ==
    /\ pc[c] \in Entering
    /\ pc[c] = "cc_head" => drv[c].batch_start < drv[c].piece_count
    /\ mutex = 0
    /\ mutex' = c
    /\ At(c, Block(pc[c]))
    /\ UNCHANGED <<commitment_statuses, op, drv>>
    /\ LockFrame

\* The first block of create_commitment.
CreateBlock(c) ==
    /\ pc[c] = "cc_block"
    /\ IF AlreadyCreated(op[c].salt)
       THEN /\ At(c, "idle")
            /\ UNCHANGED commitment_statuses
       ELSE /\ commitment_statuses' =
                    [commitment_statuses EXCEPT ![op[c].salt] = "InProgress"]
            /\ At(c, "cc_load")
    /\ mutex' = DropGuard(c)
    /\ UNCHANGED <<op, drv>>
    /\ LockFrame

\* `let piece_count = self.inner.piece_count.load(Ordering::Acquire);`
LoadPieceCount(c) ==
    /\ pc[c] = "cc_load"
    /\ drv' = [drv EXCEPT ![c].piece_count = piece_count, ![c].batch_start = 0]
    /\ At(c, "cc_head")
    /\ UNCHANGED <<commitment_statuses, op, mutex>>
    /\ LockFrame

\* The for loop ends when its range is exhausted.
RangeExhausted(c) ==
    /\ pc[c] = "cc_head"
    /\ drv[c].batch_start >= drv[c].piece_count
    /\ At(c, "cc_after")
    /\ UNCHANGED <<commitment_statuses, op, drv, mutex>>
    /\ LockFrame

\* The test at the head of the loop body, on a temporary guard.
HeadTest(c) ==
    /\ pc[c] = "cc_test"
    /\ At(c, IF SeesAborted(op[c].salt) THEN "cc_after" ELSE "cc_read_await")
    /\ mutex' = DropGuard(c)
    /\ UNCHANGED <<commitment_statuses, op, drv>>
    /\ LockFrame

\* A send or a reply that a task was suspended on completes.
Resume(c) ==
    /\ pc[c] \in Suspended
    /\ CASE pc[c] = "cc_read_await" ->
                /\ At(c, "cc_tags_await")
                /\ UNCHANGED drv
         [] pc[c] = "cc_tags_await" ->
                /\ At(c, "cc_head")
                /\ drv' = [drv EXCEPT ![c].batch_start = @ + BATCH_SIZE]
         [] pc[c] = "cc_finish_await" ->
                /\ At(c, "cc_last")
                /\ UNCHANGED drv
         [] pc[c] = "rm_await" ->
                AfterRemove(c, op[c].name)
    /\ UNCHANGED <<commitment_statuses, op, mutex, reply, calls>>
    /\ UNCHANGED <<engineVars, queueVars, loopVars, histVars, findVars,
                   storeVars, parityVars, shutdownVars, serialVars, orderVars,
                   cancelVars, storageVars>>
    /\ pc[c] # "rm_await" => UNCHANGED result

\* The two `let aborted = { ... }` blocks of create_commitment.
AbortedBlock(c) ==
    /\ pc[c] \in {"cc_after_block", "cc_last_block"}
    /\ IF SeesAborted(op[c].salt)
       THEN /\ commitment_statuses' =
                    [commitment_statuses EXCEPT ![op[c].salt] = "absent"]
            /\ drv' = [drv EXCEPT ![c].rm_salt = op[c].salt]
            /\ At(c, "rm_enter")
       ELSE IF pc[c] = "cc_after_block"
       THEN /\ At(c, "cc_finish_await")
            /\ UNCHANGED <<commitment_statuses, drv>>
       ELSE /\ commitment_statuses' =
                    [commitment_statuses EXCEPT ![op[c].salt] = "Created"]
            /\ At(c, "idle")
            /\ UNCHANGED drv
    /\ mutex' = DropGuard(c)
    /\ UNCHANGED op
    /\ LockFrame

\* The block of remove_commitment.
RemoveBlock(c) ==
    /\ pc[c] = "rm_block"
    /\ IF DeletionDelayed(commitment_statuses[drv[c].rm_salt])
       THEN /\ commitment_statuses' =
                    [commitment_statuses EXCEPT ![drv[c].rm_salt] = "Aborted"]
            /\ AfterRemove(c, op[c].name)
       ELSE /\ commitment_statuses' =
                    [commitment_statuses EXCEPT ![drv[c].rm_salt] = "absent"]
            /\ At(c, "rm_await")
            /\ UNCHANGED <<drv, result>>
    /\ mutex' = DropGuard(c)
    /\ UNCHANGED <<op, reply, calls>>
    /\ UNCHANGED <<engineVars, queueVars, loopVars, histVars, findVars,
                   storeVars, parityVars, shutdownVars, serialVars, orderVars,
                   cancelVars, storageVars>>

\* The `let salts = ...lock().unwrap().drain_filter(..).collect();` statement
\* of retain_commitments.
RetainStatement(c) ==
    /\ pc[c] = "rt_stmt"
    /\ LET drained == {s \in Salts : /\ commitment_statuses[s] # "absent"
                                     /\ s \notin op[c].keep}
       IN  /\ commitment_statuses' =
                  [s \in Salts |-> IF s \in drained THEN "absent"
                                   ELSE commitment_statuses[s]]
           /\ \E salts \in Orders(drained) :
                  IF salts = <<>>
                  THEN /\ At(c, "idle")
                       /\ UNCHANGED drv
                  ELSE /\ At(c, "rm_enter")
                       /\ drv' = [drv EXCEPT ![c].rm_salt = Head(salts),
                                             ![c].todo = Tail(salts)]
    /\ mutex' = DropGuard(c)
    /\ UNCHANGED op
    /\ LockFrame

\* A task that holds the guard runs to the end of its block.
Unlock ==
    \E c \in Clients :
        \/ CreateBlock(c)
        \/ HeadTest(c)
        \/ AbortedBlock(c)
        \/ RemoveBlock(c)
        \/ RetainStatement(c)

NextLock ==
    \/ \E c \in Clients, salt \in SingleSalt : EnterCreateCommitment(c, salt)
    \/ \E c \in Clients, salt \in SingleSalt : EnterRemoveCommitment(c, salt)
    \/ \E c \in Clients, keep \in SUBSET SingleSalt :
           EnterRetainCommitments(c, keep)
    \/ \E c \in Clients : LockStatuses(c)
    \/ \E c \in Clients : LoadPieceCount(c)
    \/ \E c \in Clients : RangeExhausted(c)
    \/ \E c \in Clients : Resume(c)
    \/ Unlock

\* A thread that holds the guard is running, and goes on running.
FairLock == WF_vars(Unlock)
SpecLock == InitOrder /\ [][NextLock]_vars /\ FairLock

(***************************************************************************)
(* C23. Lock discipline: in every reachable state no task holds the mutex  *)
(* of commitment_statuses while it is suspended on a channel send or on    *)
(* the await of a reply; the lock is held only across reads and updates of *)
(* the map, so no interleaving of create_commitment, remove_commitment and *)
(* retain_commitments deadlocks on it: a mutex that is held is released.   *)
(***************************************************************************)
C23_LockDiscipline ==
    /\ [](\A c \in Clients :
              mutex = c => pc[c] \notin Suspended /\ pc[c] \in Holding)
    /\ (mutex # 0) ~> (mutex = 0)

\* A task waits for the lock at the head of a batch while another task,
\* inside remove_commitment, holds it.
C23_Witness ==
    \E c, d \in Clients :
        /\ pc[c] = "cc_head"
        /\ drv[c].batch_start = BATCH_SIZE
        /\ pc[d] = "rm_block"
        /\ mutex = d


(***************************************************************************)
(* C31. Replacement fallback in ParityDbRecordStorage: when the multihash  *)
(* code of the key is not the Sector code, or the stored value or the new  *)
(* value does not decode as a set of byte strings, put replaces the stored *)
(* record: a following get(key) returns the value and the publisher of the *)
(* new record, with no expiry.                                             *)
(***************************************************************************)
C31_ReplacementFallback ==
    \A key \in ParityKeys :
        p_hist[key].fallback =>
            ParityGet(p_db, key) =
                Some([key |-> key, value |-> p_hist[key].value,
                      publisher |-> p_hist[key].publisher, expires |-> None])

\* Under the Sector key a set was stored and bytes that are no set were put
\* over it by a publisher: get returns those bytes and that publisher.
C31_Witness ==
    /\ p_hist[SectorKey].n = 2
    /\ ~p_hist[SectorKey].clean
    /\ p_hist[SectorKey].sets # {}
    /\ p_hist[SectorKey].fallback
    /\ ParityGet(p_db, SectorKey) =
           Some([key |-> SectorKey, value |-> NoSetBytes,
                 publisher |-> Some(6), expires |-> None])


(***************************************************************************)
(* LimitedSizeRecordStorageWrapper::new over an inner store that holds     *)
(* records already, then puts and removes.                                 *)
(***************************************************************************)
\* The inner stores that a wrapper is made over.
LoadedStores ==
    UNION {[keys -> {1}] : keys \in SUBSET StoreKeys}

\* `for rec in record_store.records() { let _ = heap.insert(rec.key.clone()); }`
\* keys is the order in which records() gives the records.
RECURSIVE LoadHeap(_, _, _, _)
LoadHeap(h, keys, peer, limit) ==
    IF keys = <<>> THEN h
    ELSE LoadHeap(HeapInsert(h, Head(keys), peer, limit).heap, Tail(keys),
                  peer, limit)

\* LimitedSizeRecordStorageWrapper::new
WrapperNew(record_store, limit, peer) ==
    /\ inner = record_store
    /\ \E keys \in Orders(DOMAIN record_store) :
           heap = LoadHeap(HeapNew, keys, peer, limit)
    /\ local_peer = peer
    /\ max_items = limit
    /\ s_hist = DOMAIN record_store
    /\ s_last = NoStoreOp

InitLoaded ==
    /\ InitPlot
    /\ FindIdle
    /\ ParityIdle
    /\ \E record_store \in LoadedStores, limit \in 1..MaxItems, peer \in Peers :
           WrapperNew(record_store, limit, peer)
SpecLoaded == InitLoaded /\ [][NextStore]_vars

(***************************************************************************)
(* C32. Wrapper construction establishes the invariant: right after        *)
(* LimitedSizeRecordStorageWrapper::new(inner, max_items, peer), for an    *)
(* inner store holding any number of records, also more than max_items,    *)
(* the heap contains exactly the keys of inner.records(), and the size of  *)
(* the heap is the number of records in inner and at most max_items.       *)
(***************************************************************************)
C32_ConstructionEstablishesInvariant ==
    s_last.kind = "new" =>
        /\ {k \in StoreKeys : heap[k] > 0} = DOMAIN inner
        /\ HeapSize(heap) = Cardinality(DOMAIN inner)
        /\ Cardinality(DOMAIN inner) <= max_items


(***************************************************************************)
(* C33. Wrapper remove clears both layers: after remove(key) on the        *)
(* wrapper, get(key) returns None, the key is no longer in the heap and so *)
(* is never chosen as the eviction victim of a later put, and removing a   *)
(* key that is not stored changes neither the inner store nor the heap.    *)
(***************************************************************************)
\* LimitedSizeRecordStorageWrapper::get: `self.inner.get(key)`
StoreGet(key) ==
    IF key \in DOMAIN inner THEN Some(inner[key]) ELSE None

C33_RemoveClearsBothLayers ==
    [][/\ \A key \in StoreKeys :
              StoreRemove(key) =>
                  /\ StoreGet(key)' = None
                  /\ heap'[key] = 0
                  /\ StoreGet(key) = None => (inner' = inner /\ heap' = heap)
       /\ \A key \in StoreKeys, value \in Values :
              (StorePut(key, value) /\ s_last'.evicted # None) =>
                  \/ s_last'.evicted[1] = key
                  \/ heap[s_last'.evicted[1]] > 0]_vars


(***************************************************************************)
(* LimitedSizeRecordStorageWrapper::put over an inner store whose put      *)
(* returns an error, as that of GetOnlyRecordStorage does.                 *)
(***************************************************************************)
\* A faulty variant: the key is pushed to the heap before the inner put.
HeapInsertedFirst(h, key, peer, limit) ==
    HeapInsert(h, key, peer, limit).heap

\* `self.inner.put(record)?;` returns the error before `self.heap.insert`.
HeapAfterFailedPut(h, key, peer, limit) ==
    h

StorePutFails(key, value) ==
    /\ s_last.n < MaxOps
    /\ heap' = HeapAfterFailedPut(heap, key, local_peer, max_items)
    /\ s_last' = [n |-> s_last.n + 1, distinct |-> FALSE, kind |-> "put failed",
                  key |-> key, evicted |-> None, before |-> DOMAIN inner,
                  out |-> GetOnlyPut([key |-> key, value |-> value,
                                      publisher |-> None, expires |-> None])]
    /\ UNCHANGED <<inner, local_peer, max_items, s_hist>>
    /\ UNCHANGED <<plotVars, findVars, parityVars, shutdownVars, sideVars>>

NextStoreFaulty ==
    \/ NextStore
    \/ \E key \in StoreKeys, value \in Values : StorePutFails(key, value)
SpecStoreFaulty == InitStore /\ [][NextStoreFaulty]_vars

(***************************************************************************)
(* C40. A failed put leaves the wrapper unchanged: when the put of the     *)
(* inner store returns an error, as a GetOnlyRecordStorage inner returns   *)
(* MaxRecords, LimitedSizeRecordStorageWrapper::put returns that error,    *)
(* inserts nothing into the heap and evicts nothing: the heap and the      *)
(* inner store are as they were before the call.                           *)
(***************************************************************************)
C40_FailedPutChangesNothing ==
    [][\A key \in StoreKeys, value \in Values :
           StorePutFails(key, value) =>
               /\ s_last'.out = Err(MAX_RECORDS)
               /\ s_last'.evicted = None
               /\ heap' = heap
               /\ inner' = inner]_vars

\* The put of a new key failed on a wrapper that was full: a put that had
\* reached the heap would have evicted a key.
C40_Witness ==
    /\ s_last.kind = "put failed"
    /\ s_last.key \notin DOMAIN inner
    /\ HeapSize(heap) = max_items
    /\ Cardinality(DOMAIN inner) = max_items


(***************************************************************************)
(* The batches of create_commitment: the plotter writes pieces while tasks *)
(* build and remove the commitment of one salt. batches[c] is the sequence *)
(* of the index ranges of the WriteTags requests that the run of task c    *)
(* has submitted.                                                          *)
(***************************************************************************)
NextBatches == Loop \/ PlotWrites \/ CancelCalls
SpecBatches == Init /\ [][NextBatches]_vars

(***************************************************************************)
(* C34. Batches partition the snapshot: a run of create_commitment reads   *)
(* piece_count once and, unless aborted or failed, submits WriteTags       *)
(* batches whose index ranges [batch_start, min(batch_start + BATCH_SIZE,  *)
(* piece_count)) are disjoint, in increasing order, and together cover     *)
(* exactly [0, piece_count); with piece_count = 0 it submits no WriteTags  *)
(* and still submits FinishCommitmentCreation; pieces written after the    *)
(* snapshot get no tag in this run.                                        *)
(***************************************************************************)
\* Batch i of the run of task c is the i-th range of BATCH_SIZE indexes, cut
\* at the snapshot.
InItsPlace(c, i) ==
    LET batch == batches[c][i]
    IN  /\ batch.first = (i - 1) * BATCH_SIZE
        /\ batch.n = Min(batch.first + BATCH_SIZE, drv[c].piece_count) - batch.first
        /\ batch.n >= 1
        /\ batch.first + batch.n <= drv[c].piece_count

\* The indexes of the ranges submitted so far.
Covered(c) ==
    UNION {batches[c][i].first..(batches[c][i].first + batches[c][i].n - 1) :
               i \in DOMAIN batches[c]}

\* The run of task c leaves its loop and its first `let aborted` block and
\* sends FinishCommitmentCreation.
SubmitsFinish(c) ==
    /\ pc[c] = "cc_finish_send"
    /\ pc'[c] = "notify"

C34_BatchesPartitionSnapshot ==
    /\ [](\A c \in Clients, salt \in SingleSalt :
              (Running(c, salt) /\ pc[c] # "cc_load") =>
                  \A i \in DOMAIN batches[c] : InItsPlace(c, i))
    /\ [][\A c \in Clients, salt \in SingleSalt :
              /\ (Running(c, salt) /\ pc[c] # "cc_load" /\ pc'[c] # "idle") =>
                     drv'[c].piece_count = drv[c].piece_count
              /\ (SubmitsFinish(c) /\ aborting[c] = "no") =>
                     Covered(c) = 0..(drv[c].piece_count - 1)
              /\ (pc[c] = "cc_post" /\ pc'[c] # "cc_post"
                      /\ ~SeesAborted(op[c].salt)) =>
                     pc'[c] = "cc_finish_send"]_vars

\* A run that took its snapshot at one piece has submitted its one batch and
\* FinishCommitmentCreation, while the plot has grown to three pieces.
C34_Witness ==
    \E c \in Clients :
        /\ drv[c].stage = "finish"
        /\ drv[c].piece_count = 1
        /\ piece_count = BATCH_SIZE + 1
        /\ batches[c] = <<[first |-> 0, n |-> 1]>>

\* A run over three pieces has submitted its two batches and
\* FinishCommitmentCreation.
C34_WitnessTwoBatches ==
    \E c \in Clients :
        /\ drv[c].stage = "finish"
        /\ batches[c] = <<[first |-> 0, n |-> BATCH_SIZE], [first |-> BATCH_SIZE, n |-> 1]>>

\* A run over an empty plot has submitted FinishCommitmentCreation and no
\* WriteTags.
C34_WitnessEmpty ==
    \E c \in Clients :
        /\ drv[c].stage = "finish"
        /\ pc[c] = "await"
        /\ drv[c].piece_count = 0
        /\ batches[c] = <<>>


(***************************************************************************)
(* C36. No stale in-progress status: in every reachable state a salt has   *)
(* status InProgress or Aborted only while some create_commitment(salt)    *)
(* call is still running; whenever create_commitment(salt) has returned,   *)
(* with success or with any error (a failed piece read, a failed           *)
(* WriteTags, a FinishCommitmentCreation whose reply sender was dropped),  *)
(* the entry of the salt is either Created or absent.                      *)
(***************************************************************************)
C36_NoStaleInProgress ==
    \A salt \in Salts :
        commitment_statuses[salt] \in {"InProgress", "Aborted"} =>
            \E c \in Clients : Running(c, salt)


(***************************************************************************)
(* C37. An accepted abort is never lost: once remove_commitment(salt) has  *)
(* returned success by marking the salt Aborted, no create_commitment(salt)*)
(* run that had started before the mark ends with the status of the salt   *)
(* Created, for every interleaving, including a second                     *)
(* create_commitment(salt) call that starts while the first run is still   *)
(* in progress or while the status is Aborted.                             *)
(***************************************************************************)
\* The run of create_commitment of task c returns success, having inserted
\* Created in its last `let aborted` block.
EndsCreated(c) ==
    /\ pc[c] # "idle"
    /\ op[c].name = "create_commitment"
    /\ pc'[c] = "idle"
    /\ result'[c].state = "ok"
    /\ commitment_statuses'[op[c].salt] = "Created"

C37_AcceptedAbortNeverLost ==
    [][\A c \in Clients : aborting[c] # "no" => ~EndsCreated(c)]_vars


(***************************************************************************)
(* retain_commitments against builds in flight: tasks build and remove the *)
(* commitment of one salt and call retain_commitments. retained is the set *)
(* of the tasks whose run of create_commitment was InProgress when a       *)
(* retain_commitments that does not keep its salt drained the entry.       *)
(***************************************************************************)
\* The runs whose InProgress entry the drain_filter of retain_commitments(keep)
\* takes out of the map.
DrainedInFlight(keep) ==
    {d \in Clients :
        /\ pc[d] # "idle"
        /\ op[d].name = "create_commitment"
        /\ op[d].salt \notin keep
        /\ commitment_statuses[op[d].salt] = "InProgress"}

RetainCommitmentsCallDrains(c, keep) ==
    /\ RetainCommitmentsCalled(c, keep)
    /\ retained' = retained \cup DrainedInFlight(keep)
    /\ UNCHANGED <<aborting, batches>>
    /\ CancelFrame

NextRetain ==
    \/ Loop
    \/ CancelCalls
    \/ \E c \in Clients, keep \in SUBSET SingleSalt : RetainCommitmentsCallDrains(c, keep)

SpecRetain == InitOrder /\ [][NextRetain]_vars

(***************************************************************************)
(* C38. retain_commitments stops in-flight builds: if                      *)
(* retain_commitments(keep) is called while a create_commitment(salt) run  *)
(* with salt not in keep is InProgress, that run does not afterwards       *)
(* complete with status Created, and the salt never ends up Created with a *)
(* TagIndex that lacks the tags written before the removal.                *)
(***************************************************************************)
C38_RetainStopsBuildsInFlight ==
    [][\A c \in retained : ~EndsCreated(c)]_vars


(***************************************************************************)
(* C39. No queued write is lost at shutdown: when the loop of the          *)
(* background task terminates because the sender handles were dropped, the *)
(* write queue is empty, i.e. every write or admin request that had been   *)
(* enqueued before the senders were dropped (also one whose client future  *)
(* was cancelled before the reply) has been served before sync_all and     *)
(* termination.                                                            *)
(***************************************************************************)
C39_NoQueuedWriteLostAtShutdown ==
    (epc \in {"sync", "done"}) => write_requests = <<>>


(***************************************************************************)
(* Wake-ups: every task is a writer or a reader of pieces, with a bounded  *)
(* number of calls in all, so that reads stop arriving. The background     *)
(* task and every client task are scheduled fairly; the wake channel holds *)
(* ANY_CAPACITY signals and try_send on a full channel is ignored.         *)
(***************************************************************************)
\* Task c has called no method of the plot yet, or only `name`.
Keeps(c, name) == op[c].name \in {"none", name}

WakeClients ==
    \/ \E c \in Clients : Notify(c)
    \/ \E c \in Clients, n \in PlotLengths :
           Keeps(c, "write_many") /\ WriteManyCall(c, 0, n)
    \/ \E c \in Clients : WriteManyReturn(c)
    \/ \E c \in Clients : Keeps(c, "read") /\ ReadCall(c, 0)
    \/ \E c \in Clients : ReadReturn(c)

NextWake == Engine \/ WakeClients
FairWake ==
    /\ WF_vars(Engine)
    /\ \A c \in Clients : WF_vars(Notify(c))
    /\ \A c \in Clients : WF_vars(ReadReturn(c))
    /\ \A c \in Clients : WF_vars(WriteManyReturn(c))
SpecWake == InitIO /\ [][NextWake]_vars /\ FairWake

(***************************************************************************)
(* C35. No lost wake-up: while the sender handles exist, every request     *)
(* placed in the read or write queue is eventually dequeued by the         *)
(* background task and its caller eventually gets a result or a 'sender    *)
(* dropped' error, provided reads eventually stop arriving; the task never *)
(* blocks on the wake signal while a request that was enqueued before its  *)
(* last empty-queue observation is still pending, for every interleaving   *)
(* of the clients' enqueue and try_send(()) steps with the loop (wake      *)
(* channel of capacity 1).                                                 *)
(***************************************************************************)
\* The tasks whose requests are in a queue.
Queued ==
    {read_requests[i].from : i \in DOMAIN read_requests}
        \cup {write_requests[i].from : i \in DOMAIN write_requests}

\* The background task is at any_requests_receiver.next() and no signal is
\* buffered.
BlockedOnWake ==
    /\ epc = "wait"
    /\ any_requests = 0

\* Task c has a request out and no answer yet.
Waiting(c) == pc[c] \in {"notify", "await"}

Answered(c) ==
    /\ pc[c] = "idle"
    /\ result[c].state \in {"ok", "err"}
    /\ c \notin Queued

C35_NoLostWakeUp ==
    /\ [](BlockedOnWake => \A c \in Queued : pc[c] = "notify")
    /\ \A c \in Clients : Waiting(c) ~> Answered(c)

\* After a first write was served, the background task waits with no signal
\* buffered while the next request is in the queue, its try_send(()) to come.
C35_Witness ==
    /\ BlockedOnWake
    /\ piece_count > 0
    /\ write_requests # <<>>
    /\ read_requests # <<>>
    /\ \A c \in Queued : pc[c] = "notify"

====
